---- MODULE Spec2Model ----
(***************************************************************************)
(* Model of the SeismoX waveform pipeline (src/app/pipeline.py) with its   *)
(* producers (src/app/main.py, src/app/iris_stream.py) and the detection   *)
(* adapter (src/app/pickers/__init__.py).                                  *)
(*                                                                         *)
(* Conventions                                                             *)
(*  - Optional[T] is a sequence: <<>> is None, <<x>> is the value x.       *)
(*  - datetimes and timedeltas are integers counted in ticks of 0.1 s.     *)
(*  - a float sampling rate is an integer counted in 1/RateScale Hz; 0     *)
(*    stands for the falsy values None and 0.0.                            *)
(*  - a sample is the integer k when it is the k-th sample its producer    *)
(*    sent on its (station, channel), so order and identity are visible.   *)
(***************************************************************************)
EXTENDS Integers, Sequences, FiniteSets, TLC

VARIABLES
    stations,           \* table Station:  id -> [code, latitude, longitude, status]
    waveforms,          \* table Waveform: id -> [station_id, received_at, processed]
    events,             \* table Event:    id -> [origin_time, preferred_station_id, event_type]
    picks,              \* table PhasePick: sequence of persisted picks
    waveform_queue,     \* pipeline.waveform_queue
    station_buffers,    \* pipeline._station_buffers: station id -> channel name -> buffer
    model,              \* pickers._model: "None" (not tried), "False" (absent), "Loaded"
    worker_tasks,       \* the tasks running process_waveforms: [pc, request, exception]
    started,            \* the application's startup event has fired
    clock,              \* dt.datetime.utcnow()
    stream_rate,        \* the sampling rate of the decoded streams of this run
    _status,            \* iris_stream._status
    _latest_frame,      \* iris_stream._latest_frame
    nreq,               \* number of ProcessingRequests built so far
    sent,               \* <<station id, channel>> -> samples sent so far by the producers
    accumulated,        \* history: <<station id, channel>> -> samples appended to the buffer
    windows_log,        \* history: the windows sliced, in emission order
    last_call,          \* history: outcome of the latest _buffer_and_pick call
    first_request,      \* history: <<station id, channel>> -> the first request buffered
    handled,            \* history: one entry per request taken through _handle_request
    associate_calls,    \* history: the pick batches _associate_event was invoked on
    fn_call,            \* history: the latest call of a function applied on its own
    _stop_event,        \* iris_stream._stop_event: the flag is set
    _sl_client,         \* iris_stream._sl_client: None or the client published last
    _trace_queue,       \* iris_stream._trace_queue
    _stream_task,       \* iris_stream._stream_task: None or the session of the task
    _worker_task,       \* iris_stream._worker_task: None or the session of the task
    clients,            \* the SeedLink clients created, by session: "open" or "closed"
    pump_threads,       \* the threads running _pump_traces, by session: [pc, code]
    relay_tasks,        \* the tasks running _consume_traces, by session: [pc, cancel]
    stop_calls,         \* the stop_live_stream calls suspended at an await
    ntraces,            \* number of traces the server has delivered
    api_call,           \* history: the latest start or stop call and what it returned
    quiet               \* history: a stop has returned and no start has succeeded since

dbvars    == <<stations, waveforms, events, picks>>
livevars  == <<_status, _latest_frame>>
bufvars   == <<station_buffers, model, accumulated, windows_log, last_call, first_request>>
vars      == <<stations, waveforms, events, picks, waveform_queue, station_buffers,
               model, worker_tasks, started, clock, stream_rate, _status, _latest_frame,
               nreq, sent, accumulated, windows_log, last_call, first_request, handled,
               associate_calls, fn_call, _stop_event, _sl_client, _trace_queue,
               _stream_task, _worker_task, clients, pump_threads, relay_tasks, stop_calls,
               ntraces, api_call, quiet>>
bridgevars == <<_stop_event, _sl_client, _trace_queue, _stream_task, _worker_task, clients,
                pump_threads, relay_tasks, stop_calls, ntraces, api_call, quiet>>

----------------------------------------------------------------------------
(* Bounds of the model *)

MaxCalls    == 3    \* _buffer_and_pick calls explored by SpecBuf
MaxChunk    == 3    \* samples carried by one request: 1..MaxChunk
MaxRequests == 2    \* requests enqueued in one run of Spec
MaxSamples  == 2    \* samples carried by one request enqueued in Spec: 1..MaxSamples
InterArrival == 30  \* ticks between two arrivals (3 s: not a multiple of the window)

(* Program constants and units *)

WINDOW_SECONDS == 10    \* int(request.sampling_rate * 10), dt.timedelta(seconds=10)
TicksPerSecond == 10    \* resolution of a modelled datetime: 0.1 s
RateScale      == 100   \* resolution of a modelled sampling rate: 0.01 Hz

Window == WINDOW_SECONDS * TicksPerSecond

----------------------------------------------------------------------------
(* Python values *)

None      == <<>>
Some(x)   == <<x>>
OrElse(o, d) == IF o = None THEN d ELSE o[1]     \* `o or d` for an Optional datetime/str
EmptyDict == [x \in {} |-> x]

Min(S) == CHOOSE x \in S : \A y \in S : x <= y
Max(S) == CHOOSE x \in S : \A y \in S : x >= y
Least(a, b) == IF a <= b THEN a ELSE b

Get(d, k, default) == IF k \in DOMAIN d THEN d[k] ELSE default   \* dict.get / setdefault
Put(d, k, v) == (k :> v) @@ d

Drop(s, n) == SubSeq(s, n + 1, Len(s))                  \* s[n:]
Take(s, n) == SubSeq(s, 1, Least(n, Len(s)))            \* s[:n]

----------------------------------------------------------------------------
(* Inputs *)

\* channel names in lexicographic order, as sorted() orders them
ChannelOrder == <<"BHE", "BHZ", "HHZ", "UNK">>
ChannelChoices == {None, Some("BHZ")}        \* ProcessingRequest.channel
Hints == {None, Some(400)}                   \* ProcessingRequest.start_time
\* ProcessingRequest.sampling_rate: 0.2 Hz (windows of 2 samples) and 0.3 Hz (windows
\* of 3 samples)
Rates == {20, 30}

PhaseLabels == <<"Pg", "Sg", "Pn", "Sn">>

\* the draws of one _simulate_phase_picks call: random.uniform(0.5, 6.0) seconds per
\* pick, random.uniform(0.7, 0.99) as hundredths
SimDraws == { [offsets |-> <<5, 60, 30, 30>>, quality |-> <<70, 99, 80, 80>>],
              [offsets |-> <<60, 30, 5, 30>>, quality |-> <<99, 70, 80, 80>>] }
SimDefault == [offsets |-> <<5, 60, 30, 30>>, quality |-> <<70, 99, 80, 80>>]

\* a field of a model output row that int() or float() raises on
NotANumber == -999

\* the fields of an output row are floats; the class index is kept in hundredths so
\* that int() has something to truncate
ClassScale == 100

\* what the TorchScript model returns for one window, after tolist(): rows of
\* (phase class index in hundredths, sample index, confidence in hundredths); the
\* last value has a row of one field between its two detections
Detections == { <<>>,
                << <<0, 1, 90>> >>,
                << <<100, 1, 60>>, <<7>>, <<0, 0, 80>> >> }

\* the environment of one run_phase_picker call: whether the model file exists,
\* whether torch.jit.load raises, whether the model invocation raises, what it
\* returns, and the random draws of the simulation fallback
WindowEnvs ==
    { [file |-> FALSE, load_fails |-> FALSE, raises |-> FALSE, output |-> <<>>, sim |-> s] :
          s \in SimDraws }
    \cup { [file |-> TRUE, load_fails |-> FALSE, raises |-> FALSE, output |-> o,
            sim |-> SimDefault] : o \in Detections }
    \cup { [file |-> TRUE, load_fails |-> FALSE, raises |-> TRUE, output |-> <<>>,
            sim |-> SimDefault],
           [file |-> TRUE, load_fails |-> TRUE, raises |-> FALSE, output |-> <<>>,
            sim |-> SimDefault] }

----------------------------------------------------------------------------
(* pickers/__init__.py *)

\* _load_model: the cached value when there is one; else False is cached when the file
\* is missing; else torch.jit.load is called, and when it raises nothing is cached.
\* attempted tells that the call went past the cache and looked for the file
_load_model(m, env) ==
    IF m # "None" THEN [model |-> m, attempted |-> FALSE, raised |-> FALSE]
    ELSE IF ~env.file THEN [model |-> "False", attempted |-> TRUE, raised |-> FALSE]
    ELSE IF env.load_fails THEN [model |-> "None", attempted |-> TRUE, raised |-> TRUE]
    ELSE [model |-> "Loaded", attempted |-> TRUE, raised |-> FALSE]

\* a tensor: its number of dimensions and its nested data; dim 2 is a sequence of rows
Tensor2(rows) == [dim |-> 2, data |-> rows]
Tensor3(matrices) == [dim |-> 3, data |-> matrices]
Shape(t) ==
    IF t.dim = 1 THEN <<Len(t.data)>>
    ELSE IF t.dim = 2 THEN <<Len(t.data), Len(t.data[1])>>
    ELSE <<Len(t.data), Len(t.data[1]), Len(t.data[1][1])>>

\* data.transpose(0, 1) of a 2-D tensor
Transpose(t) ==
    Tensor2([j \in 1..Shape(t)[2] |-> [i \in 1..Shape(t)[1] |-> t.data[i][j]]])

\* run_phase_picker, lines 50-51 and 58-59: (3, N) with N # 3 is transposed
TransposeChannelFirst(t) ==
    IF t.dim = 2 /\ Shape(t)[1] = 3 /\ Shape(t)[2] # 3 THEN Transpose(t) ELSE t

\* run_phase_picker, lines 54-55: (1, 3, N) becomes (N, 3)
CollapseBatch(t) ==
    IF t.dim = 3 /\ Shape(t)[1] = 1 /\ Shape(t)[2] = 3
    THEN Transpose(Tensor2(t.data[1])) ELSE t

\* run_phase_picker, lines 46-63: the tensor handed to the model, or a rejection
Accepted(data) == [ok |-> ~(data.dim # 2 \/ Shape(data)[2] # 3), data |-> data]
NormalizeInput(samples) ==
    Accepted(TransposeChannelFirst(CollapseBatch(TransposeChannelFirst(samples))))

\* run_phase_picker, lines 71-78: a row is kept when it is not empty, has three
\* fields to unpack and int()/float() accept them
Parseable(item) ==
    /\ item # <<>>
    /\ Len(item) >= 3
    /\ \A i \in 1..3 : item[i] # NotANumber

\* int() of a non-negative float
IntOf(x) == x \div ClassScale

\* a faulty variant: the first malformed row ends the parsing of the batch
ParseRowsUntilMalformed(result) ==
    LET bad  == {i \in DOMAIN result : ~Parseable(result[i])}
        upto == IF bad = {} THEN Len(result)
                ELSE (CHOOSE i \in bad : \A j \in bad : i <= j) - 1
    IN  [i \in 1..upto |->
            [phase_idx |-> IntOf(result[i][1]), sample_idx |-> result[i][2],
             confidence |-> result[i][3]]]

\* lines 68-79: item[:3] of every kept row, as (int, float, float)
ParseRows(result) ==
    LET kept == SelectSeq(result, Parseable)
    IN  [i \in DOMAIN kept |->
            [phase_idx |-> IntOf(kept[i][1]), sample_idx |-> kept[i][2],
             confidence |-> kept[i][3]]]

\* lines 42-79, given the outcome of _load_model and of the normalization
Detect(loaded, input, env) ==
    IF loaded.raised
    THEN [model |-> loaded.model, results |-> <<>>, raised |-> TRUE,
          attempted |-> loaded.attempted, invoked |-> FALSE]
    ELSE IF loaded.model # "Loaded"
    THEN [model |-> loaded.model, results |-> <<>>, raised |-> FALSE,
          attempted |-> loaded.attempted, invoked |-> FALSE]
    ELSE IF ~input.ok
    THEN [model |-> loaded.model, results |-> <<>>, raised |-> FALSE,
          attempted |-> loaded.attempted, invoked |-> FALSE]
    ELSE IF env.raises
    THEN [model |-> loaded.model, results |-> <<>>, raised |-> TRUE,
          attempted |-> loaded.attempted, invoked |-> TRUE]
    ELSE [model |-> loaded.model, results |-> ParseRows(env.output), raised |-> FALSE,
          attempted |-> loaded.attempted, invoked |-> TRUE]

run_phase_picker(m, env, samples) ==
    Detect(_load_model(m, env), NormalizeInput(samples), env)

----------------------------------------------------------------------------
(* pipeline.py: picks *)

\* a faulty variant: a negative index counts from the end of the list
PhaseLabelFromEnd(phase_idx) ==
    IF phase_idx < Len(PhaseLabels)
    THEN PhaseLabels[(phase_idx % Len(PhaseLabels)) + 1]
    ELSE "phase" \o ToString(phase_idx)

\* lines 166-167
PhaseLabel(phase_idx) ==
    IF 0 <= phase_idx /\ phase_idx < Len(PhaseLabels)
    THEN PhaseLabels[phase_idx + 1]
    ELSE "phase" \o ToString(phase_idx)

\* timedelta(seconds = sample_idx / sampling_rate), in ticks
PickOffset(sample_idx, sampling_rate) ==
    (sample_idx * RateScale * TicksPerSecond) \div sampling_rate

\* a detection whose class index is None
NoPhase == -1000
HasPhase(detection) == detection.phase_idx # NoPhase

\* lines 165-179: the pick of one detection
PickOf(detection, station_id, sampling_rate, start_time) ==
    [station_id |-> station_id,
     event_id   |-> None,
     phase_type |-> PhaseLabel(detection.phase_idx),
     pick_time  |-> start_time + PickOffset(detection.sample_idx, sampling_rate),
     quality    |-> detection.confidence]

\* lines 155-180: a detection without a class index is passed over
_convert_picker_results(picker_results, station_id, sampling_rate, start_time) ==
    LET kept == SelectSeq(picker_results, HasPhase)
    IN  [i \in DOMAIN kept |-> PickOf(kept[i], station_id, sampling_rate, start_time)]

\* a faulty variant: the base time is the request's received time even for a window
_simulate_phase_picksFromReceived(request, base_time, draw) ==
    [i \in DOMAIN PhaseLabels |->
        [station_id |-> request.station_id,
         event_id   |-> None,
         phase_type |-> PhaseLabels[i],
         pick_time  |-> request.received_at + draw.offsets[i],
         quality    |-> draw.quality[i]]]

_simulate_phase_picks(request, base_time, draw) ==
    [i \in DOMAIN PhaseLabels |->
        [station_id |-> request.station_id,
         event_id   |-> None,
         phase_type |-> PhaseLabels[i],
         pick_time  |-> OrElse(base_time, request.received_at) + draw.offsets[i],
         quality    |-> draw.quality[i]]]

----------------------------------------------------------------------------
(* pipeline.py: _buffer_and_pick *)

block_len(sampling_rate) == (sampling_rate * WINDOW_SECONDS) \div RateScale

Usable(request) == request.samples # <<>> /\ request.sampling_rate # 0

\* sorted(channels.keys())[:3]
selected_names(channels) ==
    Take(SelectSeq(ChannelOrder, LAMBDA n : n \in DOMAIN channels), 3)

\* a faulty variant: no row is added for a missing channel
sample_matrixUnpadded(channels, names, blk) ==
    [i \in 1..Len(names) |-> Take(channels[names[i]].samples, blk)]

\* one row per selected channel, then copies of row 0 up to three rows
sample_matrix(channels, names, blk) ==
    [i \in 1..3 |-> IF i <= Len(names) THEN Take(channels[names[i]].samples, blk)
                    ELSE Take(channels[names[1]].samples, blk)]

\* a faulty variant: the last sample of the block stays in the buffer
DropAndAdvanceOverlapping(channels, names, blk) ==
    [n \in DOMAIN channels |->
        IF \E i \in DOMAIN names : names[i] = n
        THEN [channels[n] EXCEPT !.samples = Drop(@, blk - 1), !.start_time = @ + Window]
        ELSE channels[n]]

\* drop processed samples and advance start times per channel
DropAndAdvance(channels, names, blk) ==
    [n \in DOMAIN channels |->
        IF \E i \in DOMAIN names : names[i] = n
        THEN [channels[n] EXCEPT !.samples = Drop(@, blk), !.start_time = @ + Window]
        ELSE channels[n]]

min_len(channels) == Min({Len(channels[n].samples) : n \in DOMAIN channels})

\* a faulty variant: a buffer that holds exactly one block is not sliced
ReadyStrict(channels, blk) == DOMAIN channels # {} /\ min_len(channels) > blk

\* the loop goes on: there are channels and the shortest holds a whole block
Ready(channels, blk) == DOMAIN channels # {} /\ min_len(channels) >= blk

\* lines 99-105 with a window length of 0: min_len < block_len never holds, and the
\* station has the channel of the request
Endless(request) == Usable(request) /\ block_len(request.sampling_rate) = 0

\* number of iterations of the slicing loop that reach the picker
RECURSIVE NumWindows(_, _)
NumWindows(channels, blk) ==
    IF ~Ready(channels, blk) THEN 0
    ELSE 1 + NumWindows(DropAndAdvance(channels, selected_names(channels), blk), blk)

\* a faulty variant: simulated picks are added to the detections of the window
WindowPicksWithSimulated(results, request, start_time, sim) ==
    _convert_picker_results(results, request.station_id, request.sampling_rate, start_time)
        \o _simulate_phase_picks(request, Some(start_time), sim)

\* lines 122-132: the picks one window contributes
WindowPicks(results, request, start_time, sim) ==
    IF results # <<>>
    THEN _convert_picker_results(results, request.station_id, request.sampling_rate,
                                 start_time)
    ELSE _simulate_phase_picks(request, Some(start_time), sim)

RECURSIVE SliceLoop(_, _, _, _, _, _)
SliceLoop(channels, m, request, envs, k, acc) ==
    LET blk == block_len(request.sampling_rate)
    IN  IF ~Ready(channels, blk)
        THEN [channels |-> channels, model |-> m, picks |-> acc.picks,
              windows |-> acc.windows, raised |-> FALSE]
        ELSE
        LET names      == selected_names(channels)
            matrix     == sample_matrix(channels, names, blk)
            start_time == Min({channels[names[i]].start_time : i \in DOMAIN names})
            run        == run_phase_picker(m, envs[k], Tensor2(matrix))
            new        == WindowPicks(run.results, request, start_time, envs[k].sim)
            window     == [station_id |-> request.station_id, start_time |-> start_time,
                           names |-> names, matrix |-> matrix, results |-> run.results,
                           sim |-> envs[k].sim, picks |-> new]
        IN  IF run.raised
            THEN [channels |-> channels, model |-> run.model, picks |-> <<>>,
                  windows |-> acc.windows, raised |-> TRUE]
            ELSE SliceLoop(DropAndAdvance(channels, names, blk), run.model, request, envs,
                           k + 1, [picks |-> acc.picks \o new,
                                   windows |-> Append(acc.windows, window)])

ChannelName(request) == OrElse(request.channel, "UNK")

\* the channel dict of the request's station after lines 73-95: the buffer is created
\* on the first request of the channel, and the samples are appended
Extended(buffers, request) ==
    LET channels == Get(buffers, request.station_id, EmptyDict)
        name     == ChannelName(request)
        chan_buf == Get(channels, name,
                        [start_time    |-> OrElse(request.start_time, request.received_at),
                         sampling_rate |-> request.sampling_rate,
                         samples       |-> <<>>])
    IN  Put(channels, name,
            [chan_buf EXCEPT !.sampling_rate = request.sampling_rate,
                             !.samples = @ \o request.samples])

\* a faulty variant: the channel buffer is set up before the request is tested
_buffer_and_pickBuffersFirst(buffers, m, request, envs, draw) ==
    IF ~Usable(request)
    THEN [buffers |-> Put(buffers, request.station_id, Extended(buffers, request)),
          model |-> m, picks |-> _simulate_phase_picks(request, None, draw),
          windows |-> <<>>, raised |-> FALSE]
    ELSE LET loop == SliceLoop(Extended(buffers, request), m, request, envs, 1,
                               [picks |-> <<>>, windows |-> <<>>])
         IN  [buffers |-> Put(buffers, request.station_id, loop.channels),
              model |-> loop.model, picks |-> loop.picks,
              windows |-> loop.windows, raised |-> loop.raised]

\* lines 67-140
_buffer_and_pick(buffers, m, request, envs, draw) ==
    IF ~Usable(request)
    THEN [buffers |-> buffers, model |-> m,
          picks |-> _simulate_phase_picks(request, None, draw),
          windows |-> <<>>, raised |-> FALSE]
    ELSE LET loop == SliceLoop(Extended(buffers, request), m, request, envs, 1,
                               [picks |-> <<>>, windows |-> <<>>])
         IN  [buffers |-> Put(buffers, request.station_id, loop.channels),
              model |-> loop.model, picks |-> loop.picks,
              windows |-> loop.windows, raised |-> loop.raised]

\* what the history keeps of the windows of a call
Logged(windows) ==
    [i \in DOMAIN windows |->
        [station_id |-> windows[i].station_id, start_time |-> windows[i].start_time,
         names |-> windows[i].names, matrix |-> windows[i].matrix]]

\* the environments of the picker calls one request leads to
EnvsFor(buffers, request) ==
    IF ~Usable(request) THEN {<<>>}
    ELSE [1..NumWindows(Extended(buffers, request), block_len(request.sampling_rate))
            -> WindowEnvs]

DrawsFor(request) == IF Usable(request) THEN {SimDefault} ELSE SimDraws

\* history of a call
CallRecord(buffers, request, res) ==
    LET key == <<request.station_id, ChannelName(request)>>
        channels == Get(buffers, request.station_id, EmptyDict)
        before == IF ChannelName(request) \in DOMAIN channels
                  THEN Len(channels[ChannelName(request)].samples) ELSE 0
    IN  [station_id |-> request.station_id, name |-> ChannelName(request),
         usable |-> Usable(request), before |-> before, n |-> Len(request.samples),
         blk |-> block_len(request.sampling_rate), hint |-> request.start_time,
         received_at |-> request.received_at,
         windows |-> Len(res.windows), picks |-> Len(res.picks), raised |-> res.raised]

NoCall == [station_id |-> 0, name |-> "", usable |-> FALSE, before |-> 0, n |-> 0,
           blk |-> 0, hint |-> None, received_at |-> 0, windows |-> 0, picks |-> 0,
           raised |-> FALSE]

Accumulated(acc, request) ==
    IF ~Usable(request) THEN acc
    ELSE LET key == <<request.station_id, ChannelName(request)>>
         IN  Put(acc, key, Get(acc, key, 0) + Len(request.samples))

FirstRequest(first, request) ==
    LET key == <<request.station_id, ChannelName(request)>>
    IN  IF ~Usable(request) \/ key \in DOMAIN first THEN first
        ELSE Put(first, key, [start_time |-> request.start_time,
                              received_at |-> request.received_at])

\* the next n samples of a producer on one channel
NextSamples(key, n) == [i \in 1..n |-> Get(sent, key, 0) + i]

----------------------------------------------------------------------------
(* State after import of the modules *)

Init ==
    /\ stations = <<>>
    /\ waveforms = <<>>
    /\ events = <<>>
    /\ picks = <<>>
    /\ waveform_queue = <<>>
    /\ station_buffers = EmptyDict
    /\ model = "None"
    /\ worker_tasks = <<>>
    /\ started = FALSE
    /\ clock = 1000
    /\ stream_rate \in Rates
    /\ _status = [running |-> FALSE, frames |-> 0, station |-> None, last_frame |-> None,
                  error |-> None]
    /\ _latest_frame = None
    /\ nreq = 0
    /\ sent = EmptyDict
    /\ accumulated = EmptyDict
    /\ windows_log = <<>>
    /\ last_call = NoCall
    /\ first_request = EmptyDict
    /\ handled = <<>>
    /\ associate_calls = <<>>
    /\ fn_call = [fn |-> "none"]
    /\ _stop_event = FALSE
    /\ _sl_client = None
    /\ _trace_queue = <<>>
    /\ _stream_task = None
    /\ _worker_task = None
    /\ clients = <<>>
    /\ pump_threads = <<>>
    /\ relay_tasks = <<>>
    /\ stop_calls = <<>>
    /\ ntraces = 0
    /\ api_call = [n |-> 0, returns |-> 0, fn |-> "none", arg |-> "", overlapped |-> FALSE,
                  returned |-> FALSE]
    /\ quiet = FALSE

----------------------------------------------------------------------------
(* SpecBuf: _buffer_and_pick applied to a bounded sequence of requests of one     *)
(* station, in the order the worker would take them; a call that raises ends the  *)
(* worker, so no call follows it.                                                 *)

BufStation == 1

Accumulate ==
    /\ nreq < MaxCalls
    /\ ~last_call.raised
    /\ \E ch \in ChannelChoices, n \in 1..MaxChunk, hint \in Hints :
        LET key == <<BufStation, OrElse(ch, "UNK")>>
            request == [rid |-> nreq + 1, waveform_id |-> 0, station_id |-> BufStation,
                        received_at |-> clock + InterArrival, start_time |-> hint,
                        samples |-> NextSamples(key, n), sampling_rate |-> stream_rate,
                        channel |-> ch]
        IN  \E envs \in EnvsFor(station_buffers, request) :
              LET res == _buffer_and_pick(station_buffers, model, request, envs, SimDefault)
              IN  /\ station_buffers' = res.buffers
                  /\ model' = res.model
                  /\ accumulated' = Accumulated(accumulated, request)
                  /\ windows_log' = windows_log \o Logged(res.windows)
                  /\ last_call' = CallRecord(station_buffers, request, res)
                  /\ first_request' = FirstRequest(first_request, request)
                  /\ sent' = Put(sent, key, Get(sent, key, 0) + n)
                  /\ clock' = clock + InterArrival
                  /\ nreq' = nreq + 1
    /\ UNCHANGED <<dbvars, waveform_queue, worker_tasks, started, stream_rate, livevars, handled, associate_calls, fn_call, bridgevars>>

NextBuf == Accumulate

SpecBuf == Init /\ [][NextBuf]_vars
----------------------------------------------------------------------------
(* pipeline.py: association and persistence *)

PickTimes(batch) == {batch[i].pick_time : i \in DOMAIN batch}

\* a faulty variant: the origin time is the time of the first pick of the batch, and
\* the preferred station is the first registered station
_associate_eventFirstPick(station_rows, station_id, batch) ==
    IF station_id \notin DOMAIN station_rows \/ batch = <<>>
    THEN [raised |-> TRUE, event |-> None]
    ELSE [raised |-> FALSE,
          event  |-> Some([origin_time |-> batch[1].pick_time,
                           preferred_station_id |-> 1,
                           event_type |-> "earthquake"])]

\* the Event row _associate_event adds; .one() raises when the station is not found,
\* min() raises on an empty batch
_associate_event(station_rows, station_id, batch) ==
    IF station_id \notin DOMAIN station_rows \/ batch = <<>>
    THEN [raised |-> TRUE, event |-> None]
    ELSE [raised |-> FALSE,
          event  |-> Some([origin_time |-> Min(PickTimes(batch)),
                           preferred_station_id |-> station_id,
                           event_type |-> "earthquake"])]

\* a faulty variant: only the first pick of the batch is attached
_attach_picks_to_eventFirstOnly(event_id, batch) ==
    <<[batch[1] EXCEPT !.event_id = Some(event_id)]>>

\* the rows _attach_picks_to_event adds to the PhasePick table
_attach_picks_to_event(event_id, batch) ==
    [i \in DOMAIN batch |-> [batch[i] EXCEPT !.event_id = Some(event_id)]]

_update_waveform_processed(waveform_rows, waveform_id) ==
    IF waveform_id \in DOMAIN waveform_rows
    THEN [waveform_rows EXCEPT ![waveform_id].processed = TRUE]
    ELSE waveform_rows

\* a faulty variant: an empty batch leaves the waveform unmarked
HandleEmptyBatchUnmarked(db, request, fault) ==
    [db |-> db, event_id |-> None,
     exception |-> IF fault = "mark" THEN Some("mark") ELSE None, associate |-> <<>>]

\* _handle_request, lines 57-59: the batch is empty.  `fault` names the persistence
\* operation that raises in this handling, if any.
HandleEmptyBatch(db, request, fault) ==
    IF fault = "mark"
    THEN [db |-> db, event_id |-> None, exception |-> Some("mark"), associate |-> <<>>]
    ELSE [db |-> [db EXCEPT !.waveforms = _update_waveform_processed(@, request.waveform_id)],
          event_id |-> None, exception |-> None, associate |-> <<>>]

\* a faulty variant: the waveform is marked before the event is created and the
\* picks are attached
HandleBatchMarksFirst(db, request, batch, fault) ==
    LET call  == <<[station_id |-> request.station_id, batch |-> batch]>>
        db0   == [db EXCEPT !.waveforms = _update_waveform_processed(@, request.waveform_id)]
        assoc == _associate_event(db.stations, request.station_id, batch)
        eid   == Len(db.events) + 1
        db1   == [db0 EXCEPT !.events = Append(@, assoc.event[1])]
        db2   == [db1 EXCEPT !.picks = @ \o _attach_picks_to_event(eid, batch)]
    IN  IF fault = "mark"
        THEN [db |-> db, event_id |-> None, exception |-> Some("mark"), associate |-> <<>>]
        ELSE IF fault = "associate" \/ assoc.raised
        THEN [db |-> db0, event_id |-> None, exception |-> Some("associate"), associate |-> call]
        ELSE IF fault = "attach"
        THEN [db |-> db1, event_id |-> Some(eid), exception |-> Some("attach"), associate |-> call]
        ELSE [db |-> db2, event_id |-> Some(eid), exception |-> None, associate |-> call]

\* _handle_request, lines 61-64: notify, associate, attach, mark
HandleBatch(db, request, batch, fault) ==
    LET call  == <<[station_id |-> request.station_id, batch |-> batch]>>
        assoc == _associate_event(db.stations, request.station_id, batch)
        eid   == Len(db.events) + 1
        db1   == [db EXCEPT !.events = Append(@, assoc.event[1])]
        db2   == [db1 EXCEPT !.picks = @ \o _attach_picks_to_event(eid, batch)]
        db3   == [db2 EXCEPT !.waveforms = _update_waveform_processed(@, request.waveform_id)]
    IN  IF fault = "associate" \/ assoc.raised
        THEN [db |-> db, event_id |-> None, exception |-> Some("associate"), associate |-> call]
        ELSE IF fault = "attach"
        THEN [db |-> db1, event_id |-> Some(eid), exception |-> Some("attach"), associate |-> call]
        ELSE IF fault = "mark"
        THEN [db |-> db2, event_id |-> Some(eid), exception |-> Some("mark"), associate |-> call]
        ELSE [db |-> db3, event_id |-> Some(eid), exception |-> None, associate |-> call]

\* a faulty variant: association is attempted whatever the batch
_handle_requestAlwaysAssociates(db, request, batch, fault) ==
    HandleBatch(db, request, batch, fault)

_handle_request(db, request, batch, fault) ==
    IF batch = <<>>
    THEN HandleEmptyBatch(db, request, fault)
    ELSE HandleBatch(db, request, batch, fault)

\* the call one listener gets
ListenerCall(i, station_id, batch) ==
    [listener |-> i, station_id |-> station_id, batch |-> batch]

\* the loop without the try of line 148: the exception of a listener ends it
RECURSIVE NotifyUntilRaise(_, _, _, _)
NotifyUntilRaise(listeners, i, station_id, batch) ==
    IF i > Len(listeners) THEN <<>>
    ELSE IF listeners[i] = "raises"
    THEN <<ListenerCall(i, station_id, batch)>>
    ELSE <<ListenerCall(i, station_id, batch)>>
             \o NotifyUntilRaise(listeners, i + 1, station_id, batch)

\* lines 147-152: the listeners are called in the order they registered; the
\* exception of a listener is caught and the loop goes on
RECURSIVE NotifyLoop(_, _, _, _)
NotifyLoop(listeners, i, station_id, batch) ==
    IF i > Len(listeners) THEN <<>>
    ELSE IF listeners[i] = "raises"
    THEN <<ListenerCall(i, station_id, batch)>>
             \o NotifyLoop(listeners, i + 1, station_id, batch)
    ELSE <<ListenerCall(i, station_id, batch)>>
             \o NotifyLoop(listeners, i + 1, station_id, batch)

\* a faulty variant: no listener is called after one that raised
_notify_pick_listenersUntilRaise(listeners, station_id, batch) ==
    IF listeners = <<>> \/ batch = <<>> THEN <<>>
    ELSE NotifyUntilRaise(listeners, 1, station_id, batch)

\* lines 143-152: the calls made to the listeners
_notify_pick_listeners(listeners, station_id, batch) ==
    IF listeners = <<>> \/ batch = <<>> THEN <<>>
    ELSE NotifyLoop(listeners, 1, station_id, batch)

\* _handle_request, lines 55-64, with the listeners registered so far: an empty
\* batch returns before line 61
Notified(listeners, request, batch) ==
    IF batch = <<>> THEN <<>>
    ELSE _notify_pick_listeners(listeners, request.station_id, batch)

\* the persistence operations that can raise while a batch is handled
FaultsFor(batch) ==
    IF batch = <<>> THEN {"none", "mark"} ELSE {"none", "associate", "attach", "mark"}

----------------------------------------------------------------------------
(* main.py *)

StationCodes == {"ANMO", "COLA"}

\* a faulty variant: the startup event creates two worker tasks
_on_startupTwoWorkers ==
    /\ ~started
    /\ started' = TRUE
    /\ worker_tasks' = worker_tasks \o <<[pc |-> "get", request |-> None, exception |-> None],
                                         [pc |-> "get", request |-> None, exception |-> None]>>
    /\ UNCHANGED <<dbvars, waveform_queue, bufvars, clock, stream_rate, livevars, nreq, sent,
                   handled, associate_calls, fn_call, bridgevars>>

\* the startup event: one task runs process_waveforms; requests are served after it
_on_startup ==
    /\ ~started
    /\ started' = TRUE
    /\ worker_tasks' = Append(worker_tasks, [pc |-> "get", request |-> None, exception |-> None])
    /\ UNCHANGED <<dbvars, waveform_queue, bufvars, clock, stream_rate, livevars, nreq, sent, handled, associate_calls, fn_call, bridgevars>>

\* POST /stations; the code column is unique, a second row with the code is refused
create_station ==
    /\ started
    /\ \E code \in StationCodes :
         /\ \A id \in DOMAIN stations : stations[id].code # code
         /\ stations' = Append(stations, [code |-> code, latitude |-> 34, longitude |-> 106,
                                          status |-> "healthy"])
    /\ UNCHANGED <<waveforms, events, picks, waveform_queue, bufvars, worker_tasks, started,
                   clock, stream_rate, livevars, nreq, sent, handled, associate_calls, fn_call, bridgevars>>

\* POST /waveforms/ingest for a registered station
ingest_waveform ==
    /\ started
    /\ nreq < MaxRequests
    /\ \E id \in DOMAIN stations :
         LET received_at == clock + InterArrival
             waveform_id == Len(waveforms) + 1
         IN  /\ waveforms' = Append(waveforms, [station_id |-> id, received_at |-> received_at,
                                                processed |-> FALSE])
             /\ waveform_queue' = Append(waveform_queue,
                    [rid |-> nreq + 1, waveform_id |-> waveform_id, station_id |-> id,
                     received_at |-> received_at, start_time |-> None, samples |-> <<>>,
                     sampling_rate |-> 0, channel |-> None])
             /\ clock' = received_at
    /\ nreq' = nreq + 1
    /\ UNCHANGED <<stations, events, picks, bufvars, worker_tasks, started, stream_rate, livevars, sent,
                   handled, associate_calls, fn_call, bridgevars>>

----------------------------------------------------------------------------
(* pipeline.py: the queue and the worker *)

\* enqueue_waveform called by a producer that decodes its file: as the two producers of
\* the repository it has added the Waveform row of the request; unlike them it fills
\* the fields samples, sampling_rate and channel of the ProcessingRequest
enqueue_waveform ==
    /\ started
    /\ nreq < MaxRequests
    /\ \E id \in DOMAIN stations, ch \in ChannelChoices, n \in 1..MaxSamples :
         LET key         == <<id, OrElse(ch, "UNK")>>
             received_at == clock + InterArrival
             waveform_id == Len(waveforms) + 1
         IN  /\ waveforms' = Append(waveforms, [station_id |-> id, received_at |-> received_at,
                                                processed |-> FALSE])
             /\ waveform_queue' = Append(waveform_queue,
                    [rid |-> nreq + 1, waveform_id |-> waveform_id, station_id |-> id,
                     received_at |-> received_at, start_time |-> None,
                     samples |-> NextSamples(key, n), sampling_rate |-> stream_rate,
                     channel |-> ch])
             /\ sent' = Put(sent, key, Get(sent, key, 0) + n)
             /\ clock' = received_at
    /\ nreq' = nreq + 1
    /\ UNCHANGED <<stations, events, picks, bufvars, worker_tasks, started, stream_rate,
                   livevars, handled, associate_calls, fn_call, bridgevars>>

\* a faulty variant: the newest item is taken
QueueGetNewest(queue) ==
    [item |-> queue[Len(queue)], rest |-> SubSeq(queue, 1, Len(queue) - 1)]

\* asyncio.Queue.get on a queue that is not empty: the oldest item
QueueGet(queue) == [item |-> Head(queue), rest |-> Tail(queue)]

\* process_waveforms, line 48: request = await waveform_queue.get()
process_waveforms_get(w) ==
    /\ worker_tasks[w].pc = "get"
    /\ waveform_queue # <<>>
    /\ worker_tasks' = [worker_tasks EXCEPT ![w].pc = "handle",
                                            ![w].request = Some(QueueGet(waveform_queue).item)]
    /\ waveform_queue' = QueueGet(waveform_queue).rest
    /\ UNCHANGED <<dbvars, bufvars, started, clock, stream_rate, livevars, nreq, sent, handled, associate_calls, fn_call, bridgevars>>

\* after a handling that raised: the exception leaves the loop and ends the task
AfterHandling(task, exception) ==
    IF exception = None
    THEN [pc |-> "get", request |-> None, exception |-> None]
    ELSE [pc |-> "dead", request |-> None, exception |-> exception]

\* process_waveforms, lines 49-52: await _handle_request(request), task_done()
process_waveforms_handle(w) ==
    /\ worker_tasks[w].pc = "handle"
    /\ ~Endless(worker_tasks[w].request[1])
    /\ LET request == worker_tasks[w].request[1]
           db == [stations |-> stations, waveforms |-> waveforms, events |-> events,
                  picks |-> picks]
       IN  \E envs \in EnvsFor(station_buffers, request), draw \in DrawsFor(request) :
             LET res == _buffer_and_pick(station_buffers, model, request, envs, draw)
             IN  /\ station_buffers' = res.buffers
                 /\ model' = res.model
                 /\ accumulated' = Accumulated(accumulated, request)
                 /\ windows_log' = windows_log \o Logged(res.windows)
                 /\ last_call' = CallRecord(station_buffers, request, res)
                 /\ first_request' = FirstRequest(first_request, request)
                 /\ \E fault \in (IF res.raised THEN {"none"} ELSE FaultsFor(res.picks)) :
                      LET out == IF res.raised
                                 THEN [db |-> db, event_id |-> None,
                                       exception |-> Some("detector"), associate |-> <<>>]
                                 ELSE _handle_request(db, request, res.picks, fault)
                      IN  /\ stations' = out.db.stations
                          /\ waveforms' = out.db.waveforms
                          /\ events' = out.db.events
                          /\ picks' = out.db.picks
                          /\ associate_calls' = associate_calls \o out.associate
                          /\ handled' = Append(handled,
                                 [rid |-> request.rid, waveform_id |-> request.waveform_id,
                                  station_id |-> request.station_id,
                                  batch |-> IF res.raised THEN <<>> ELSE res.picks,
                                  event_id |-> out.event_id, exception |-> out.exception])
                          /\ worker_tasks' = [worker_tasks EXCEPT
                                                ![w] = AfterHandling(@, out.exception)]
    /\ UNCHANGED <<waveform_queue, started, clock, stream_rate, livevars, nreq, sent, fn_call, bridgevars>>

----------------------------------------------------------------------------
(* iris_stream.py: the bridge, at the grain of its calls into the pipeline *)

\* storage.persist_waveform_bytes is not part of the sources; by the specification the
\* relay "persists each trace's raw bytes": it returns the time of the write
persist_waveform_bytes(now) == now + InterArrival

\* the station selector of the stream: the default of start_live_stream
StreamSelectors == {"ANMO"}

\* start_live_stream: returns False when already running, else resets the status and
\* launches the streaming client and the relay task
start_live_stream ==
    /\ started
    /\ \E code \in StreamSelectors :
         _status' = IF _status.running THEN _status
                    ELSE [_status EXCEPT !.running = TRUE, !.frames = 0,
                                         !.station = Some(code), !.error = None]
    /\ UNCHANGED <<dbvars, waveform_queue, bufvars, worker_tasks, started, clock, stream_rate,
                   _latest_frame, nreq, sent, handled, associate_calls, fn_call, bridgevars>>

\* stop_live_stream: returns False when not running, else sets the stop flag and
\* cancels the relay task
stop_live_stream ==
    /\ started
    /\ _status' = [_status EXCEPT !.running = FALSE]
    /\ UNCHANGED <<dbvars, waveform_queue, bufvars, worker_tasks, started, clock, stream_rate,
                   _latest_frame, nreq, sent, handled, associate_calls, fn_call, bridgevars>>

\* GET /iris/live/status
get_live_status ==
    /\ started
    /\ UNCHANGED vars

\* GET /iris/live/frame
get_latest_frame ==
    /\ started
    /\ UNCHANGED vars

\* a faulty variant: the lookup finds no row
StationByCodeMissing(station_rows, code) == None

\* the Station row of a code, or None: select(Station).where(code == ...).first()
StationByCode(station_rows, code) ==
    IF \E id \in DOMAIN station_rows : station_rows[id].code = code
    THEN Some(CHOOSE id \in DOMAIN station_rows : station_rows[id].code = code)
    ELSE None

\* a faulty variant: the request names the row before the one just added
_handle_traceStaleRow(station_rows, waveform_rows, trace, now) ==
    LET found       == StationByCode(station_rows, trace.station)
        station_id  == OrElse(found, Len(station_rows) + 1)
        received_at == persist_waveform_bytes(now)
    IN  [stations |-> IF found = None
                      THEN Append(station_rows, [code |-> trace.station, latitude |-> 0,
                                                 longitude |-> 0, status |-> "streaming"])
                      ELSE station_rows,
         waveforms |-> Append(waveform_rows, [station_id |-> station_id,
                                              received_at |-> received_at,
                                              processed |-> FALSE]),
         request |-> [rid |-> 0, waveform_id |-> Len(waveform_rows),
                      station_id |-> station_id, received_at |-> received_at,
                      start_time |-> None, samples |-> <<>>, sampling_rate |-> 0,
                      channel |-> None]]

\* _handle_trace, lines 171-202: the station is registered if absent, the bytes are
\* written, the Waveform row is committed and the request that names it is built
_handle_trace(station_rows, waveform_rows, trace, now) ==
    LET found       == StationByCode(station_rows, trace.station)
        station_id  == OrElse(found, Len(station_rows) + 1)
        received_at == persist_waveform_bytes(now)
    IN  [stations |-> IF found = None
                      THEN Append(station_rows, [code |-> trace.station, latitude |-> 0,
                                                 longitude |-> 0, status |-> "streaming"])
                      ELSE station_rows,
         waveforms |-> Append(waveform_rows, [station_id |-> station_id,
                                              received_at |-> received_at,
                                              processed |-> FALSE]),
         request |-> [rid |-> 0, waveform_id |-> Len(waveform_rows) + 1,
                      station_id |-> station_id, received_at |-> received_at,
                      start_time |-> None, samples |-> <<>>, sampling_rate |-> 0,
                      channel |-> None]]

\* the status after a trace has been handled, lines 148-149
FrameCounted(status, received_at) ==
    [status EXCEPT !.frames = @ + 1, !.last_frame = Some(received_at)]

\* one iteration of _consume_traces on a trace of the selected stream: _handle_trace
\* registers the station if absent, persists the trace, adds the Waveform row and
\* enqueues a request; the status counts the frame and the latest frame is replaced
_consume_traces ==
    /\ _status.running
    /\ nreq < MaxRequests
    /\ LET out == _handle_trace(stations, waveforms, [station |-> _status.station[1]], clock)
       IN  /\ stations' = out.stations
           /\ waveforms' = out.waveforms
           /\ waveform_queue' = Append(waveform_queue, [out.request EXCEPT !.rid = nreq + 1])
           /\ clock' = out.request.received_at
           /\ _status' = FrameCounted(_status, out.request.received_at)
    /\ _latest_frame' = Some([station |-> _status.station[1]])
    /\ nreq' = nreq + 1
    /\ UNCHANGED <<events, picks, bufvars, worker_tasks, started, stream_rate, sent, handled,
                   associate_calls, fn_call, bridgevars>>

Next ==
    \/ _on_startup
    \/ create_station
    \/ ingest_waveform
    \/ enqueue_waveform
    \/ start_live_stream
    \/ stop_live_stream
    \/ get_live_status
    \/ get_latest_frame
    \/ _consume_traces
    \/ \E w \in DOMAIN worker_tasks : process_waveforms_get(w)
    \/ \E w \in DOMAIN worker_tasks : process_waveforms_handle(w)

Spec == Init /\ [][Next]_vars

----------------------------------------------------------------------------
(* SpecFn: the functions of the pipeline and of the detection adapter applied on   *)
(* their own, to inputs drawn from bounded sets; fn_call keeps the latest call.    *)
(* A function without state is applied once in a behaviour.                       *)

sysvars == <<dbvars, livevars, bufvars, waveform_queue, worker_tasks, started, clock,
             stream_rate, nreq, sent, handled, associate_calls, bridgevars>>

\* random.uniform(0.5, 6.0) in ticks and random.uniform(0.7, 0.99) in hundredths: the
\* ends of the two ranges
UniformOffsets == {5, 60}
UniformQualities == {70, 99}
AllSimDraws == { [offsets |-> o, quality |-> q] :
                     o \in [1..4 -> UniformOffsets], q \in [1..4 -> UniformQualities] }

\* the arguments of a _simulate_phase_picks call: base_time is None on the sample-less
\* path (line 71) and the window start on the window path (line 132)
BaseTimes == {None, Some(400), Some(1100)}
SimRequests == { [rid |-> 0, waveform_id |-> 1, station_id |-> sid, received_at |-> t,
                  start_time |-> None, samples |-> <<>>, sampling_rate |-> 0,
                  channel |-> None] : sid \in {1, 2}, t \in {1000, 1030} }

simulate_call ==
    /\ fn_call.fn = "none"
    /\ \E request \in SimRequests, base_time \in BaseTimes, draw \in AllSimDraws :
         fn_call' = [fn |-> "simulate", request |-> request, base_time |-> base_time,
                     result |-> _simulate_phase_picks(request, base_time, draw)]
    /\ UNCHANGED sysvars

\* the states of pickers._model
ModelStates == {"None", "False", "Loaded"}

\* _buffer_and_pick applied to the first request of a channel: up to MaxChunk + 1
\* samples at 0.2 Hz, which is up to two windows
buffer_call ==
    /\ fn_call.fn = "none"
    /\ \E m \in ModelStates, n \in 1..(MaxChunk + 1), ch \in ChannelChoices :
         LET request == [rid |-> 0, waveform_id |-> 1, station_id |-> 1,
                         received_at |-> 1030, start_time |-> None,
                         samples |-> [i \in 1..n |-> i], sampling_rate |-> 20,
                         channel |-> ch]
         IN  \E envs \in EnvsFor(EmptyDict, request) :
               fn_call' = [fn |-> "buffer", request |-> request, model |-> m, envs |-> envs,
                           result |-> _buffer_and_pick(EmptyDict, m, request, envs,
                                                       SimDefault)]
    /\ UNCHANGED sysvars

\* rows a model output can hold: empty, two fields, detections of class 0, 1 and 2
\* (the last with a fourth field), a field that does not convert, and a class index
\* of 1.7
RawRows == { <<>>, <<100, 5>>, <<0, 1, 90>>, <<100, 2, 60>>, <<NotANumber, 1, 50>>,
             <<200, 3, 70, 9>>, <<170, 0, 80>> }
MaxRows == 3
RawOutputs == UNION { [1..n -> RawRows] : n \in 0..MaxRows }
TimeMajorWindow == Tensor2(<< <<1, 2, 3>>, <<4, 5, 6>> >>)

\* run_phase_picker with the model loaded, on a well-shaped window, for every output
detect_call ==
    /\ fn_call.fn = "none"
    /\ \E output \in RawOutputs :
         LET env == [file |-> TRUE, load_fails |-> FALSE, raises |-> FALSE,
                     output |-> output, sim |-> SimDefault]
         IN  fn_call' = [fn |-> "detect", output |-> output,
                         result |-> run_phase_picker("Loaded", env, TimeMajorWindow)]
    /\ UNCHANGED sysvars

\* a sequence of run_phase_picker calls in one process, which starts with _model = None;
\* each call meets its own environment
MaxDetects == 3
LoadEnvs == { e \in WindowEnvs : e.sim = SimDefault /\ Len(e.output) <= 1 }

detect_sequence ==
    /\ \/ fn_call.fn = "none"
       \/ fn_call.fn = "detects" /\ Len(fn_call.calls) < MaxDetects
    /\ \E env \in LoadEnvs :
         LET before == IF fn_call.fn = "none" THEN "None" ELSE fn_call.model
             calls  == IF fn_call.fn = "none" THEN <<>> ELSE fn_call.calls
             run    == run_phase_picker(before, env, TimeMajorWindow)
         IN  fn_call' = [fn |-> "detects", model |-> run.model,
                         calls |-> Append(calls, [before |-> before, env |-> env,
                                                  result |-> run])]
    /\ UNCHANGED sysvars

\* windows of n samples of c components in the layouts a caller can use; sample t of
\* component k has the value 10 k + t
MaxN == 4
SampleValue(k, t) == 10 * k + t
ComponentMajor(c, n) == Tensor2([k \in 1..c |-> [t \in 1..n |-> SampleValue(k, t)]])
TimeMajor(c, n) == Tensor2([t \in 1..n |-> [k \in 1..c |-> SampleValue(k, t)]])
SingletonBatch(c, n) == Tensor3(<<ComponentMajor(c, n).data>>)
Layouts == {"component_major", "time_major", "singleton_batch"}
LayoutOf(layout, c, n) ==
    IF layout = "component_major" THEN ComponentMajor(c, n)
    ELSE IF layout = "time_major" THEN TimeMajor(c, n)
    ELSE SingletonBatch(c, n)

\* lines 46-63 applied to a window of n samples of c components
normalize_call ==
    /\ fn_call.fn = "none"
    /\ \E n \in 1..MaxN, c \in {2, 3, 4}, layout \in Layouts :
         fn_call' = [fn |-> "normalize", n |-> n, components |-> c, layout |-> layout,
                     result |-> NormalizeInput(LayoutOf(layout, c, n))]
    /\ UNCHANGED sysvars

MaxPending == 2    \* samples a channel buffer holds before the call

\* the samples of channel name: no two channels hold the same value
PendingSamples(name, from, n) ==
    LET k == CHOOSE i \in DOMAIN ChannelOrder : ChannelOrder[i] = name
    IN  [i \in 1..n |-> 100 * k + from + i]

\* the channel dicts _buffer_and_pick can have left of a station whose requests came
\* at 0.2 Hz: the loop ended, so some buffer is shorter than a window; a buffer is
\* created with the samples of a request and only a selected one is ever sliced
ChannelDicts ==
    { [n \in S |-> [start_time |-> 400, sampling_rate |-> 20,
                    samples |-> PendingSamples(n, 0, lens[n])]] :
        S \in SUBSET {ChannelOrder[i] : i \in DOMAIN ChannelOrder},
        lens \in [{ChannelOrder[i] : i \in DOMAIN ChannelOrder} -> 0..MaxPending] }

ReachableDicts ==
    { d \in ChannelDicts :
        /\ DOMAIN d # {} => min_len(d) < block_len(20)
        /\ \A n \in DOMAIN d :
              (\A i \in DOMAIN selected_names(d) : selected_names(d)[i] # n)
                  => d[n].samples # <<>> }

\* the detector of a window_call: no model file, every window gets the simulated batch
NoModel == [file |-> FALSE, load_fails |-> FALSE, raises |-> FALSE, output |-> <<>>,
            sim |-> SimDefault]

\* _buffer_and_pick applied to a request of station 1 whose buffers hold up to four
\* channels; the request may lack samples or a sampling rate
window_call ==
    /\ fn_call.fn = "none"
    /\ \E d \in ReachableDicts, n \in 0..MaxChunk, rate \in {0, 20},
          ch \in {None} \cup {Some(ChannelOrder[i]) : i \in DOMAIN ChannelOrder} :
         LET buffers == IF DOMAIN d = {} THEN EmptyDict ELSE Put(EmptyDict, 1, d)
             held    == IF OrElse(ch, "UNK") \in DOMAIN d
                        THEN Len(d[OrElse(ch, "UNK")].samples) ELSE 0
             request == [rid |-> 0, waveform_id |-> 1, station_id |-> 1,
                         received_at |-> 1030, start_time |-> None,
                         samples |-> PendingSamples(OrElse(ch, "UNK"), held, n),
                         sampling_rate |-> rate, channel |-> ch]
             envs    == [k \in 1..MaxPending + MaxChunk |-> NoModel]
         IN  \E draw \in DrawsFor(request) :
               fn_call' = [fn |-> "window", request |-> request, before |-> buffers,
                           draw |-> draw,
                           result |-> _buffer_and_pick(buffers, "None", request, envs,
                                                       draw)]
    /\ UNCHANGED sysvars

\* raw detections: no class index, a negative one, the ends of 0..3, the first one
\* past the list; two sample indices tell the detections of a sequence apart
RawDetections ==
    { [phase_idx |-> c, sample_idx |-> k, confidence |-> 90] :
        c \in {NoPhase, -1, 0, 3, 4}, k \in {0, 1} }

\* _convert_picker_results applied to up to MaxDetects raw detections of a window of
\* 0.2 Hz that starts at 400
convert_call ==
    /\ fn_call.fn = "none"
    /\ \E n \in 0..MaxDetects :
         \E picker_results \in [1..n -> RawDetections] :
            fn_call' = [fn |-> "convert", picker_results |-> picker_results,
                        result |-> _convert_picker_results(picker_results, 1, 20, 400)]
    /\ UNCHANGED sysvars

FramePoints == 800    \* len(samples) // 800

\* trace.data.tolist() of a trace of npts samples: no two samples are equal
TraceData(npts) == [i \in 1..npts |-> 3 * i + 1]

\* the lengths of the traces a frame is made of: one sample, the lengths around
\* one and two times FramePoints, and three times FramePoints and one
TraceLengths == {1, FramePoints - 1, FramePoints, FramePoints + 1, 2 * FramePoints - 1,
                 2 * FramePoints, 3 * FramePoints + 1}

\* samples[::step]
Stride(samples, step) ==
    [k \in 1..((Len(samples) + step - 1) \div step) |-> samples[(k - 1) * step + 1]]

\* line 154: step = max(1, len(samples) // 800)
FrameStep(npts) == Max({1, npts \div FramePoints})

\* lines 152-163: the frame made of a trace
LiveFrame(trace) ==
    [station |-> trace.station, seq |-> trace.seq,
     samples |-> Stride(trace.data, FrameStep(Len(trace.data)))]

\* lines 152-163 applied to a trace, the latest frame being that of an earlier trace
\* or None: _latest_frame is bound to the new dict
frame_call ==
    /\ fn_call.fn = "none"
    /\ \E npts \in TraceLengths, earlier \in {0} \cup TraceLengths :
         LET previous == IF earlier = 0 THEN None
                         ELSE Some(LiveFrame([station |-> "ANMO", seq |-> 1,
                                              data |-> TraceData(earlier)]))
         IN  fn_call' = [fn |-> "frame", npts |-> npts, previous |-> previous,
                         result |-> Some(LiveFrame([station |-> "ANMO", seq |-> 2,
                                                    data |-> TraceData(npts)]))]
    /\ UNCHANGED sysvars

MaxListeners == 3    \* listeners registered with register_pick_listener

\* what a listener does when it is called: it returns, or it raises an Exception
ListenerOutcomes == {"returns", "raises"}

\* the tables when the request of waveform 1 of station 1 is handled
NotifyDb == [stations |-> <<[code |-> "ANMO", latitude |-> 34, longitude |-> 106,
                            status |-> "healthy"]>>,
             waveforms |-> <<[station_id |-> 1, received_at |-> 1030,
                              processed |-> FALSE]>>,
             events |-> <<>>, picks |-> <<>>]

\* _handle_request applied to a batch, empty or simulated, with up to MaxListeners
\* listeners registered
notify_call ==
    /\ fn_call.fn = "none"
    /\ \E n \in 0..MaxListeners, request \in {r \in SimRequests : r.station_id = 1} :
         \E listeners \in [1..n -> ListenerOutcomes],
            batch \in {<<>>, _simulate_phase_picks(request, None, SimDefault)} :
            fn_call' = [fn |-> "notify", listeners |-> listeners, request |-> request,
                        batch |-> batch,
                        calls |-> Notified(listeners, request, batch),
                        result |-> _handle_request(NotifyDb, request, batch, "none")]
    /\ UNCHANGED sysvars

\* storage.persist_waveform: the payload is decoded and written to a file named
\* after the station code and the time of the call, which is returned
persist_waveform(files, station_code, now) ==
    [files |-> Append(files, [station_code |-> station_code, timestamp |-> now]),
     received_at |-> now]

\* a faulty variant: the bytes are stored before the station is looked up
ingest_waveform_handlerPersistsFirst(db, files, queue, station_code, payload_ok, now) ==
    [status |-> 404, db |-> db, queue |-> queue,
     files |-> persist_waveform(files, station_code, now).files]

\* ingest_waveform, main.py lines 103-127, for any station code: the response, the
\* tables, the stored files and the pipeline queue the call leaves. An unknown code
\* is answered 404 at line 106; b64decode raises on a payload that is not base64
\* before the file is written
ingest_waveform_handler(db, files, queue, station_code, payload_ok, now) ==
    LET found  == StationByCode(db.stations, station_code)
        stored == persist_waveform(files, station_code, now)
    IN  IF found = None
        THEN [status |-> 404, db |-> db, files |-> files, queue |-> queue]
        ELSE IF ~payload_ok
        THEN [status |-> 500, db |-> db, files |-> files, queue |-> queue]
        ELSE [status |-> 200,
              db |-> [db EXCEPT !.waveforms =
                         Append(@, [station_id |-> found[1],
                                    received_at |-> stored.received_at,
                                    processed |-> FALSE])],
              files |-> stored.files,
              queue |-> Append(queue,
                           [rid |-> 0, waveform_id |-> Len(db.waveforms) + 1,
                            station_id |-> found[1], received_at |-> stored.received_at,
                            start_time |-> None, samples |-> <<>>, sampling_rate |-> 0,
                            channel |-> None])]

\* the registered stations of an ingest_call: none, one of the codes, both
RegisteredStations ==
    { [i \in 1..Len(codes) |-> [code |-> codes[i], latitude |-> 34, longitude |-> 106,
                                status |-> "healthy"]] :
        codes \in {<<>>, <<"ANMO">>, <<"COLA">>, <<"ANMO", "COLA">>, <<"COLA", "ANMO">>} }

\* POST /waveforms/ingest with one of the station codes, registered or not, on
\* tables that hold the rows and files of earlier submissions
ingest_call ==
    /\ fn_call.fn = "none"
    /\ \E station_rows \in RegisteredStations, station_code \in StationCodes,
          payload_ok \in BOOLEAN, earlier \in BOOLEAN :
         LET db0    == [stations |-> station_rows, waveforms |-> <<>>, events |-> <<>>,
                        picks |-> <<>>]
             first  == ingest_waveform_handler(db0, <<>>, <<>>, station_rows[1].code,
                                               TRUE, 1000)
             before == IF earlier
                       THEN [db |-> first.db, files |-> first.files, queue |-> first.queue]
                       ELSE [db |-> db0, files |-> <<>>, queue |-> <<>>]
         IN  /\ earlier => station_rows # <<>>
             /\ fn_call' = [fn |-> "ingest", station_code |-> station_code,
                            payload_ok |-> payload_ok, before |-> before,
                            result |-> ingest_waveform_handler(before.db, before.files,
                                           before.queue, station_code, payload_ok, 1030)]
    /\ UNCHANGED sysvars

\* _handle_request applied to a batch, empty or simulated, with listeners registered
\* and a persistence operation that may raise: the listeners are called at line 61,
\* before any of the operations of lines 62-64
handle_call ==
    /\ fn_call.fn = "none"
    /\ \E n \in 0..MaxListeners, request \in {r \in SimRequests : r.station_id = 1} :
         \E listeners \in [1..n -> ListenerOutcomes],
            batch \in {<<>>, _simulate_phase_picks(request, None, SimDefault)} :
            \E fault \in FaultsFor(batch) :
               fn_call' = [fn |-> "handle", listeners |-> listeners, request |-> request,
                           batch |-> batch, fault |-> fault,
                           calls |-> Notified(listeners, request, batch),
                           result |-> _handle_request(NotifyDb, request, batch, fault)]
    /\ UNCHANGED sysvars

NextFn ==
    \/ simulate_call
    \/ buffer_call
    \/ window_call
    \/ convert_call
    \/ frame_call
    \/ notify_call
    \/ handle_call
    \/ ingest_call
    \/ detect_call
    \/ detect_sequence
    \/ normalize_call

SpecFn == Init /\ [][NextFn]_vars

----------------------------------------------------------------------------
(* SpecStarve: the requests of one station keep coming, each with samples of one *)
(* of the channels the station streams, and _buffer_and_pick is applied to each. *)
(* fn_call keeps, between the calls, the samples every channel buffer holds; the  *)
(* start times are left out, the loop of lines 100-138 does not read them to      *)
(* decide. A channel is not sent more than its buffer may hold in the model.      *)

MaxBacklog == 4    \* samples a channel buffer may hold between two calls

ChannelNames == {ChannelOrder[i] : i \in DOMAIN ChannelOrder}

\* the samples of a channel: the channel tells them apart, their place does not
StreamSamples(name, n) == [i \in 1..n |-> PendingSamples(name, 0, 1)[1]]

\* the channel dict of the station rebuilt from the samples each buffer holds
DictOf(pending) ==
    [n \in DOMAIN pending |-> [start_time |-> 400, sampling_rate |-> 20,
                               samples |-> pending[n]]]

\* the channels whose buffer the call has cut a block from
SlicedNames(appended, left) ==
    {n \in DOMAIN appended : Len(left[n].samples) < Len(appended[n].samples)}

\* a request of channel ch can be sent: the station streams the channel and its
\* buffer has room
FeedEnabled(ch) ==
    \/ fn_call.fn = "none"
    \/ /\ fn_call.fn = "feed"
       /\ ch \in fn_call.names
       /\ Len(Get(fn_call.pending, ch, <<>>)) < MaxBacklog

\* enqueue_waveform called by a producer that decodes the stream of channel ch: a
\* request of n samples is put on the pipeline queue once the worker has taken the
\* one before
stream_request(ch) ==
    /\ waveform_queue = <<>>
    /\ FeedEnabled(ch)
    /\ \E n \in 1..MaxChunk :
         /\ fn_call.fn = "feed" => Len(Get(fn_call.pending, ch, <<>>)) + n <= MaxBacklog
         /\ waveform_queue' = <<[rid |-> 0, waveform_id |-> 1, station_id |-> 1,
                                 received_at |-> 1030, start_time |-> None,
                                 samples |-> StreamSamples(ch, n),
                                 sampling_rate |-> 20, channel |-> Some(ch)]>>
    /\ UNCHANGED <<dbvars, livevars, bufvars, worker_tasks, started, clock, stream_rate,
                   nreq, sent, handled, associate_calls, fn_call, bridgevars>>

\* the worker takes the request and applies _buffer_and_pick, lines 73-140, to it;
\* the first request tells which channels the station streams
feed_call ==
    /\ waveform_queue # <<>>
    /\ fn_call.fn \in {"none", "feed"}
    /\ \E names \in SUBSET ChannelNames :
         LET request == Head(waveform_queue)
             pending == IF fn_call.fn = "feed" THEN fn_call.pending ELSE EmptyDict
             buffers == IF DOMAIN pending = {} THEN EmptyDict
                        ELSE Put(EmptyDict, 1, DictOf(pending))
             envs    == [k \in 1..MaxBacklog + MaxChunk |-> NoModel]
             result  == _buffer_and_pick(buffers, "None", request, envs, SimDefault)
             left    == result.buffers[1]
         IN  /\ request.channel[1] \in names
             /\ fn_call.fn = "feed" => names = fn_call.names
             /\ fn_call' = [fn |-> "feed", names |-> names,
                            pending |-> [c \in DOMAIN left |-> left[c].samples],
                            sliced |-> SlicedNames(Extended(buffers, request), left),
                            windows |-> Len(result.windows)]
    /\ waveform_queue' = <<>>
    /\ UNCHANGED <<dbvars, livevars, bufvars, worker_tasks, started, clock, stream_rate,
                   nreq, sent, handled, associate_calls, bridgevars>>

NextStarve ==
    \/ \E ch \in ChannelNames : stream_request(ch)
    \/ feed_call

\* the worker takes the request that waits on the queue
RequestTaken == waveform_queue # <<>> /\ waveform_queue' = <<>>

\* every channel the station streams keeps receiving samples, and the worker runs
SpecStarve ==
    /\ Init
    /\ [][NextStarve]_vars
    /\ \A ch \in ChannelNames : SF_waveform_queue(stream_request(ch))
    /\ WF_waveform_queue(RequestTaken)

----------------------------------------------------------------------------
(* SpecBridge: iris_stream.py at the grain of its suspension points. The event   *)
(* loop runs a coroutine from one await to the next without interruption; the     *)
(* thread of _pump_traces runs beside it. A session is one successful start; its  *)
(* thread, its relay task and its client carry its number.                        *)

MaxSessions == 2    \* successful start calls
MaxApiCalls == 4    \* start and stop calls
MaxTraces   == 2    \* traces delivered by the server

pipevars == <<events, picks, bufvars, worker_tasks, started, stream_rate, sent, handled,
              associate_calls, fn_call>>

\* a faulty variant: a start naming another station is served while running
AlreadyRunningSameStation(status, code) == status.running /\ status.station = Some(code)

\* start_live_stream, line 46
AlreadyRunning(status, code) == status.running

\* a faulty variant: the status is left as it is
MarkStoppedNot(status) == status

\* stop_live_stream, line 76: _status["running"] = False
MarkStopped(status) == [status EXCEPT !.running = FALSE]

\* client.close() of lines 78-84 and 129-135, on the client the global refers to
CloseClient(all, ref) == IF ref = None THEN all ELSE [all EXCEPT ![ref[1]] = "closed"]

StopReturns(call, value) ==
    [call EXCEPT !.returns = @ + 1, !.fn = "stop", !.arg = "", !.returned = value]

\* The event loop runs its callbacks in the order they became ready. Two rules stand
\* for that order. WorkReady: the first step of a relay task, a cancellation to
\* deliver, a relay woken by a trace and a put handed over by a thread became ready
\* before the task a stop call awaits has finished, so they run before the stop call
\* goes on. LoopReady: no timeout passes while a callback is ready.
WorkReady ==
    \/ \E r \in DOMAIN relay_tasks :
          \/ relay_tasks[r].pc = "new"
          \/ relay_tasks[r].pc \in {"get", "put"} /\ relay_tasks[r].cancel
          \/ relay_tasks[r].pc = "get" /\ _trace_queue # <<>>
    \/ \E t \in DOMAIN pump_threads : pump_threads[t].pc = "put"

LoopReady ==
    \/ WorkReady
    \/ \E c \in DOMAIN stop_calls :
          \/ stop_calls[c].pc = "stream" /\ pump_threads[stop_calls[c].task].pc = "done"
          \/ stop_calls[c].pc = "worker"
               /\ relay_tasks[stop_calls[c].task].pc \in {"done", "cancelled", "failed"}

\* history: some start or stop call has been made while a stop call was suspended
Overlapped == api_call.overlapped \/ stop_calls # <<>>

\* history: a call that returns in the step it is made
ApiReturn(fn, arg, value) ==
    [n |-> api_call.n + 1, returns |-> api_call.returns + 1, fn |-> fn, arg |-> arg,
     overlapped |-> Overlapped, returned |-> value]

\* start_live_stream, lines 46-65
start_live_stream_call ==
    /\ api_call.n < MaxApiCalls
    /\ \E code \in StationCodes :
         IF AlreadyRunning(_status, code)
         THEN /\ api_call' = ApiReturn("start", code, FALSE)
              /\ UNCHANGED <<_stop_event, _status, pump_threads, relay_tasks, clients,
                             _stream_task, _worker_task, quiet>>
         ELSE /\ Len(pump_threads) < MaxSessions
              /\ _stop_event' = FALSE
              /\ _status' = [_status EXCEPT !.running = TRUE, !.frames = 0,
                                            !.station = Some(code), !.error = None]
              /\ pump_threads' = Append(pump_threads, [pc |-> "create", code |-> code,
                                                   raised |-> FALSE])
              /\ relay_tasks' = Append(relay_tasks, [pc |-> "new", cancel |-> FALSE])
              /\ clients' = Append(clients, "none")
              /\ _stream_task' = Some(Len(pump_threads) + 1)
              /\ _worker_task' = Some(Len(pump_threads) + 1)
              /\ api_call' = ApiReturn("start", code, TRUE)
              /\ quiet' = FALSE
    /\ UNCHANGED <<stations, waveforms, waveform_queue, nreq, clock, _latest_frame,
                   _sl_client, _trace_queue, stop_calls, ntraces, pipevars>>

\* stop_live_stream, lines 93-96: cancel the relay task and await it; without a relay
\* task the call returns at once
CancelWorker(call) ==
    IF _worker_task = None
    THEN /\ stop_calls' = SelectSeq(stop_calls, LAMBDA c : c # call)
         /\ api_call' = StopReturns(api_call, TRUE)
         /\ quiet' = ~api_call.overlapped
         /\ UNCHANGED <<relay_tasks, _worker_task>>
    ELSE /\ relay_tasks' = [relay_tasks EXCEPT ![_worker_task[1]].cancel =
                               (@ \/ relay_tasks[_worker_task[1]].pc \notin {"done", "cancelled", "failed"})]
         /\ stop_calls' = Append(SelectSeq(stop_calls, LAMBDA c : c # call),
                                 [call EXCEPT !.pc = "worker", !.task = _worker_task[1]])
         /\ UNCHANGED <<api_call, quiet, _worker_task>>

\* stop_live_stream, lines 72-88: up to the await of the stream task
stop_live_stream_call ==
    /\ api_call.n < MaxApiCalls
    /\ IF ~_status.running
       THEN /\ api_call' = ApiReturn("stop", "", FALSE)
            /\ UNCHANGED <<_stop_event, _status, clients, stop_calls, relay_tasks,
                           _worker_task, quiet>>
       ELSE /\ _stop_event' = TRUE
            /\ _status' = MarkStopped(_status)
            /\ clients' = CloseClient(clients, _sl_client)
            /\ LET call == [id |-> api_call.n + 1, pc |-> "stream", task |-> 0]
               IN  IF _stream_task # None
                   THEN /\ stop_calls' = Append(stop_calls, [call EXCEPT !.task = _stream_task[1]])
                        /\ api_call' = [api_call EXCEPT !.n = @ + 1, !.fn = "stop_entered",
                                                      !.arg = "", !.overlapped = Overlapped]
                        /\ UNCHANGED <<relay_tasks, _worker_task, quiet>>
                   ELSE IF _worker_task = None
                   THEN /\ api_call' = ApiReturn("stop", "", TRUE)
                        /\ quiet' = ~Overlapped
                        /\ UNCHANGED <<stop_calls, relay_tasks, _worker_task>>
                   ELSE /\ relay_tasks' = [relay_tasks EXCEPT ![_worker_task[1]].cancel =
                               (@ \/ relay_tasks[_worker_task[1]].pc \notin {"done", "cancelled", "failed"})]
                        /\ stop_calls' = Append(stop_calls,
                               [call EXCEPT !.pc = "worker", !.task = _worker_task[1]])
                        /\ api_call' = [api_call EXCEPT !.n = @ + 1, !.fn = "stop_entered",
                                                      !.arg = "", !.overlapped = Overlapped]
                        /\ UNCHANGED <<_worker_task, quiet>>
    /\ UNCHANGED <<stations, waveforms, waveform_queue, nreq, clock, _latest_frame,
                   _sl_client, _trace_queue, _stream_task, pump_threads, ntraces, pipevars>>

\* stop_live_stream, lines 88-96: the stream task has finished, or the 3 seconds have
\* passed and the task the global refers to is cancelled, which does not stop its
\* thread; then the relay task is cancelled
stop_live_stream_after_stream(c) ==
    /\ stop_calls[c].pc = "stream"
    /\ ~WorkReady
    /\ pump_threads[stop_calls[c].task].pc = "done" \/ ~LoopReady
    /\ IF pump_threads[stop_calls[c].task].pc # "done" /\ _stream_task = None
       THEN \* _stream_task.cancel() on None: the call ends with AttributeError
            /\ stop_calls' = SelectSeq(stop_calls, LAMBDA call : call # stop_calls[c])
            /\ api_call' = [StopReturns(api_call, FALSE) EXCEPT !.fn = "stop_raised"]
            /\ UNCHANGED <<_stream_task, relay_tasks, _worker_task, quiet>>
       ELSE /\ _stream_task' = None
            /\ CancelWorker(stop_calls[c])
    /\ UNCHANGED <<stations, waveforms, waveform_queue, nreq, clock, _status,
                   _latest_frame, _stop_event, _sl_client, _trace_queue, clients,
                   pump_threads, ntraces, pipevars>>

\* stop_live_stream, lines 96-100: the awaited relay task has ended. The await of a
\* task that ended with an exception raises it again: only CancelledError is caught
stop_live_stream_after_worker(c) ==
    /\ stop_calls[c].pc = "worker"
    /\ relay_tasks[stop_calls[c].task].pc \in {"done", "cancelled", "failed"}
    /\ ~WorkReady
    /\ stop_calls' = SelectSeq(stop_calls, LAMBDA call : call # stop_calls[c])
    /\ IF relay_tasks[stop_calls[c].task].pc = "failed"
       THEN /\ api_call' = [StopReturns(api_call, FALSE) EXCEPT !.fn = "stop_raised"]
            /\ UNCHANGED <<_worker_task, quiet>>
       ELSE /\ _worker_task' = None
            /\ api_call' = StopReturns(api_call, TRUE)
            /\ quiet' = ~api_call.overlapped
    /\ UNCHANGED <<stations, waveforms, waveform_queue, nreq, clock, _status,
                   _latest_frame, _stop_event, _sl_client, _trace_queue, _stream_task,
                   clients, pump_threads, relay_tasks, ntraces, pipevars>>

\* _pump_traces, lines 122-124: the client is created and published, the thread
\* enters run()
_pump_traces_create(t) ==
    /\ pump_threads[t].pc = "create"
    /\ clients' = [clients EXCEPT ![t] = "open"]
    /\ _sl_client' = Some(t)
    /\ pump_threads' = [pump_threads EXCEPT ![t].pc = "run"]
    /\ UNCHANGED <<stations, waveforms, waveform_queue, nreq, clock, _status,
                   _latest_frame, _stop_event, _trace_queue, _stream_task, _worker_task,
                   relay_tasks, stop_calls, ntraces, api_call, quiet, pipevars>>

\* _on_trace, lines 117-119: the server delivers a trace to the open client; it is
\* dropped when the flag is set, else the thread hands it to the loop and waits
_on_trace(t) ==
    /\ pump_threads[t].pc = "run"
    /\ clients[t] = "open"
    /\ ntraces < MaxTraces
    /\ ntraces' = ntraces + 1
    /\ pump_threads' = [pump_threads EXCEPT ![t].pc = IF _stop_event THEN "run" ELSE "put"]
    /\ UNCHANGED <<stations, waveforms, waveform_queue, nreq, clock, _status,
                   _latest_frame, _stop_event, _sl_client, _trace_queue, _stream_task,
                   _worker_task, clients, relay_tasks, stop_calls, api_call, quiet,
                   pipevars>>

\* line 119: the loop runs _trace_queue.put(trace) and the thread goes on
_trace_queue_put(t) ==
    /\ pump_threads[t].pc = "put"
    /\ _trace_queue' = Append(_trace_queue, [station |-> pump_threads[t].code])
    /\ pump_threads' = [pump_threads EXCEPT ![t].pc = "run"]
    /\ UNCHANGED <<stations, waveforms, waveform_queue, nreq, clock, _status,
                   _latest_frame, _stop_event, _sl_client, _stream_task, _worker_task,
                   clients, relay_tasks, stop_calls, ntraces, api_call, quiet, pipevars>>

\* _pump_traces, lines 128-137: run() returns once the client of the thread is closed
_pump_traces_finally(t) ==
    /\ pump_threads[t].pc = "run"
    /\ clients[t] = "closed"
    /\ clients' = CloseClient(clients, _sl_client)
    /\ _stop_event' = TRUE
    /\ _status' = [_status EXCEPT !.running = FALSE]
    /\ pump_threads' = [pump_threads EXCEPT ![t].pc = "done"]
    /\ UNCHANGED <<stations, waveforms, waveform_queue, nreq, clock, _latest_frame,
                   _sl_client, _trace_queue, _stream_task, _worker_task, relay_tasks,
                   stop_calls, ntraces, api_call, quiet, pipevars>>

\* a faulty variant: the exception is not written to the status
FailedSilently(status) == [status EXCEPT !.running = FALSE]

\* _pump_traces, lines 127 and 137: the error is kept and the status says not running
Failed(status) == [status EXCEPT !.running = FALSE, !.error = Some("exc")]

\* _pump_traces, lines 125-137: create_client or run() raises (no connection, the
\* server ends the stream)
_pump_traces_except(t) ==
    /\ pump_threads[t].pc \in {"create", "run"}
    /\ pump_threads[t].pc = "run" => clients[t] = "open"
    /\ clients' = CloseClient(clients, _sl_client)
    /\ _stop_event' = TRUE
    /\ _status' = Failed(_status)
    /\ pump_threads' = [pump_threads EXCEPT ![t].pc = "done", ![t].raised = TRUE]
    /\ UNCHANGED <<stations, waveforms, waveform_queue, nreq, clock, _latest_frame,
                   _sl_client, _trace_queue, _stream_task, _worker_task, relay_tasks,
                   stop_calls, ntraces, api_call, quiet, pipevars>>

\* _consume_traces, line 142, at the first run of the task
_consume_traces_begin(r) ==
    /\ relay_tasks[r].pc = "new"
    /\ ~relay_tasks[r].cancel
    /\ relay_tasks' = [relay_tasks EXCEPT ![r].pc = IF _stop_event THEN "done" ELSE "get"]
    /\ UNCHANGED <<stations, waveforms, waveform_queue, nreq, clock, _status,
                   _latest_frame, _stop_event, _sl_client, _trace_queue, _stream_task,
                   _worker_task, clients, pump_threads, stop_calls, ntraces, api_call,
                   quiet, pipevars>>

\* a faulty variant: a queue of one place
QueueFullAtOne(queue) == Len(queue) >= 1

\* pipeline.waveform_queue is asyncio.Queue() (pipeline.py line 31): without a maxsize
\* put() never waits
QueueFull(queue) == FALSE

\* _consume_traces, lines 144-165 and 142: the relay wakes with a trace, handles it
\* up to the next await and tests the flag again. The only await inside the handling
\* is the put of line 195, which suspends the task when the queue is full.
_consume_traces_trace(r) ==
    /\ ~relay_tasks[r].cancel
    /\ IF relay_tasks[r].pc = "put"
       THEN /\ ~QueueFull(waveform_queue)
            /\ waveform_queue' = Append(waveform_queue, relay_tasks[r].request)
            /\ relay_tasks' = [relay_tasks EXCEPT
                   ![r] = [pc |-> IF _stop_event THEN "done" ELSE "get", cancel |-> FALSE]]
            /\ _status' = [_status EXCEPT !.frames = @ + 1, !.last_frame = Some(clock)]
            /\ _latest_frame' = Some([station |-> relay_tasks[r].trace.station])
            /\ UNCHANGED <<stations, waveforms, clock, nreq, _trace_queue>>
       ELSE /\ relay_tasks[r].pc = "get"
            /\ _trace_queue # <<>>
            /\ nreq < MaxTraces
            /\ LET trace == Head(_trace_queue)
                   out   == _handle_trace(stations, waveforms, trace, clock)
                   request == [out.request EXCEPT !.rid = nreq + 1]
               IN  /\ _trace_queue' = Tail(_trace_queue)
                   /\ stations' = out.stations
                   /\ waveforms' = out.waveforms
                   /\ clock' = request.received_at
                   /\ nreq' = nreq + 1
                   /\ IF QueueFull(waveform_queue)
                      THEN /\ relay_tasks' = [relay_tasks EXCEPT
                                  ![r] = [pc |-> "put", cancel |-> FALSE,
                                          request |-> request, trace |-> trace]]
                           /\ UNCHANGED <<waveform_queue, _status, _latest_frame>>
                      ELSE /\ waveform_queue' = Append(waveform_queue, request)
                           /\ relay_tasks' = [relay_tasks EXCEPT
                                  ![r].pc = IF _stop_event THEN "done" ELSE "get"]
                           /\ _status' = [_status EXCEPT !.frames = @ + 1,
                                                         !.last_frame = Some(request.received_at)]
                           /\ _latest_frame' = Some([station |-> trace.station])
    /\ UNCHANGED <<_stop_event, _sl_client, _stream_task, _worker_task, clients,
                   pump_threads, stop_calls, ntraces, api_call, quiet, pipevars>>

\* _consume_traces, lines 148-165: _handle_trace raises when the trace cannot be
\* written as MSEED (line 186), after the station row of lines 171-183. The try of
\* line 148 has a finally and no except: the exception ends the relay task, the
\* frame counter and the latest frame stay as they are
_consume_traces_raises(r) ==
    /\ relay_tasks[r].pc = "get"
    /\ ~relay_tasks[r].cancel
    /\ _trace_queue # <<>>
    /\ _trace_queue' = Tail(_trace_queue)
    /\ stations' = _handle_trace(stations, waveforms, Head(_trace_queue), clock).stations
    /\ relay_tasks' = [relay_tasks EXCEPT ![r].pc = "failed"]
    /\ UNCHANGED <<waveforms, waveform_queue, nreq, clock, _status, _latest_frame,
                   _stop_event, _sl_client, _stream_task, _worker_task, clients,
                   pump_threads, stop_calls, ntraces, api_call, quiet, pipevars>>

\* _consume_traces, lines 145-146 and 142: a second without a trace, then the flag is
\* tested
_consume_traces_timeout(r) ==
    /\ relay_tasks[r].pc = "get"
    /\ ~relay_tasks[r].cancel
    /\ _trace_queue = <<>>
    /\ ~LoopReady
    /\ relay_tasks' = [relay_tasks EXCEPT ![r].pc = IF _stop_event THEN "done" ELSE "get"]
    /\ UNCHANGED <<stations, waveforms, waveform_queue, nreq, clock, _status,
                   _latest_frame, _stop_event, _sl_client, _trace_queue, _stream_task,
                   _worker_task, clients, pump_threads, stop_calls, ntraces, api_call,
                   quiet, pipevars>>

\* the cancellation of lines 94-98 reaches the relay at the await it is suspended at
_consume_traces_cancelled(r) ==
    /\ relay_tasks[r].pc \in {"new", "get", "put"}
    /\ relay_tasks[r].cancel
    /\ relay_tasks' = [relay_tasks EXCEPT ![r] = [pc |-> "cancelled", cancel |-> FALSE]]
    /\ UNCHANGED <<stations, waveforms, waveform_queue, nreq, clock, _status,
                   _latest_frame, _stop_event, _sl_client, _trace_queue, _stream_task,
                   _worker_task, clients, pump_threads, stop_calls, ntraces, api_call,
                   quiet, pipevars>>

NextBridge ==
    \/ _on_startup
    \/ start_live_stream_call
    \/ stop_live_stream_call
    \/ \E c \in DOMAIN stop_calls : stop_live_stream_after_stream(c)
    \/ \E c \in DOMAIN stop_calls : stop_live_stream_after_worker(c)
    \/ \E t \in DOMAIN pump_threads : _pump_traces_create(t)
    \/ \E t \in DOMAIN pump_threads : _on_trace(t)
    \/ \E t \in DOMAIN pump_threads : _trace_queue_put(t)
    \/ \E t \in DOMAIN pump_threads : _pump_traces_finally(t)
    \/ \E t \in DOMAIN pump_threads : _pump_traces_except(t)
    \/ \E r \in DOMAIN relay_tasks : _consume_traces_begin(r)
    \/ \E r \in DOMAIN relay_tasks : _consume_traces_trace(r)
    \/ \E r \in DOMAIN relay_tasks : _consume_traces_raises(r)
    \/ \E r \in DOMAIN relay_tasks : _consume_traces_timeout(r)
    \/ \E r \in DOMAIN relay_tasks : _consume_traces_cancelled(r)

\* the sampling rate of decoded streams plays no part in the bridge
InitBridge == Init /\ stream_rate = 20

SpecBridge == InitBridge /\ [][NextBridge]_vars


----------------------------------------------------------------------------
(* SpecHandoff: one session of the bridge and the Pipeline Worker on the one event *)
(* loop of the process. The callbacks of the loop run one at a time; a callback    *)
(* that does not return keeps every later one from running. A callback that is    *)
(* ready runs as long as the loop is free: weak fairness of the put of _on_trace. *)

HandoffCalls == 2   \* start and stop calls of the session

\* a sampling rate below 0.1 Hz: 0.05 Hz, int(0.05 * 10) = 0
LowRate == 5

\* the loop is inside the slicing loop of a request whose window length is 0
LoopHeld == \E w \in DOMAIN worker_tasks : worker_tasks[w].pc = "slicing"

\* a producer that decodes its file at a sampling rate below 0.1 Hz
enqueue_low_rate ==
    /\ started
    /\ nreq < 1
    /\ \E id \in DOMAIN stations :
         LET key         == <<id, "UNK">>
             received_at == clock + InterArrival
             waveform_id == Len(waveforms) + 1
         IN  /\ waveforms' = Append(waveforms, [station_id |-> id, received_at |-> received_at,
                                                processed |-> FALSE])
             /\ waveform_queue' = Append(waveform_queue,
                    [rid |-> nreq + 1, waveform_id |-> waveform_id, station_id |-> id,
                     received_at |-> received_at, start_time |-> None,
                     samples |-> NextSamples(key, 1), sampling_rate |-> LowRate,
                     channel |-> None])
             /\ sent' = Put(sent, key, Get(sent, key, 0) + 1)
             /\ clock' = received_at
    /\ nreq' = nreq + 1
    /\ UNCHANGED <<stations, events, picks, bufvars, worker_tasks, started, stream_rate,
                   livevars, handled, associate_calls, fn_call, bridgevars>>

\* _buffer_and_pick, lines 73-105: the samples are appended and the slicing loop is
\* entered; with a window length of 0 it is not left
process_waveforms_slicing(w) ==
    /\ worker_tasks[w].pc = "handle"
    /\ Endless(worker_tasks[w].request[1])
    /\ station_buffers' = Put(station_buffers, worker_tasks[w].request[1].station_id,
                              Extended(station_buffers, worker_tasks[w].request[1]))
    /\ worker_tasks' = [worker_tasks EXCEPT ![w].pc = "slicing"]
    /\ UNCHANGED <<dbvars, waveform_queue, model, accumulated, windows_log, last_call,
                   first_request, started, clock, stream_rate, livevars, nreq, sent,
                   handled, associate_calls, fn_call, bridgevars>>

\* the loop runs the put handed over by thread t
HandoffPut(t) == t \in DOMAIN pump_threads /\ ~LoopHeld /\ _trace_queue_put(t)

NextHandoff ==
    \/ ~LoopHeld /\ _on_startup
    \/ ~LoopHeld /\ create_station
    \/ ~LoopHeld /\ enqueue_low_rate
    \/ \E w \in DOMAIN worker_tasks : ~LoopHeld /\ process_waveforms_get(w)
    \/ \E w \in DOMAIN worker_tasks : process_waveforms_slicing(w)
    \/ ~LoopHeld /\ api_call.n < HandoffCalls /\ start_live_stream_call
    \/ ~LoopHeld /\ api_call.n < HandoffCalls /\ stop_live_stream_call
    \/ \E c \in DOMAIN stop_calls : ~LoopHeld /\ stop_live_stream_after_stream(c)
    \/ \E c \in DOMAIN stop_calls : ~LoopHeld /\ stop_live_stream_after_worker(c)
    \/ \E t \in DOMAIN pump_threads : _pump_traces_create(t)
    \/ \E t \in DOMAIN pump_threads : _on_trace(t)
    \/ \E t \in DOMAIN pump_threads : HandoffPut(t)
    \/ \E t \in DOMAIN pump_threads : _pump_traces_finally(t)
    \/ \E t \in DOMAIN pump_threads : _pump_traces_except(t)
    \/ \E r \in DOMAIN relay_tasks : ~LoopHeld /\ _consume_traces_begin(r)
    \/ \E r \in DOMAIN relay_tasks : ~LoopHeld /\ _consume_traces_trace(r)
    \/ \E r \in DOMAIN relay_tasks : ~LoopHeld /\ _consume_traces_timeout(r)
    \/ \E r \in DOMAIN relay_tasks : ~LoopHeld /\ _consume_traces_cancelled(r)

SpecHandoff ==
    /\ InitBridge
    /\ [][NextHandoff]_vars
    /\ \A t \in 1..MaxSessions : WF_vars(HandoffPut(t))

----------------------------------------------------------------------------
(* SpecWorker: the Pipeline Worker and the producers of requests that carry      *)
(* samples, at 0.2 or 0.3 Hz and below 0.1 Hz. The task of the worker is the only *)
(* one that is ready once it has taken a request: weak fairness of its step,     *)
(* stated on what the step does to the task of the worker.                        *)

\* worker w has taken a request and line 50 has not run
AtHandle(w) == w \in DOMAIN worker_tasks /\ worker_tasks[w].pc = "handle"

NextWorker ==
    \/ _on_startup
    \/ ~LoopHeld /\ create_station
    \/ ~LoopHeld /\ enqueue_waveform
    \/ ~LoopHeld /\ enqueue_low_rate
    \/ \E w \in DOMAIN worker_tasks : process_waveforms_get(w)
    \/ \E w \in DOMAIN worker_tasks : process_waveforms_handle(w)
    \/ \E w \in DOMAIN worker_tasks : process_waveforms_slicing(w)

\* the handling of the request worker w has taken returns or raises: the step of
\* process_waveforms_handle as the task of the worker shows it
HandlingReturns(w) ==
    /\ AtHandle(w)
    /\ ~Endless(worker_tasks[w].request[1])
    /\ \E exception \in {None, Some("detector"), Some("associate"), Some("attach"),
                         Some("mark")} :
          worker_tasks' = [worker_tasks EXCEPT ![w] = AfterHandling(@, exception)]

\* the handling is synchronous code on the event loop: once begun it runs to the end
\* the worker enters the slicing loop of a request whose window length is 0
EntersLoop(w) == AtHandle(w) /\ process_waveforms_slicing(w)

SpecWorker ==
    /\ Init
    /\ [][NextWorker]_vars
    /\ WF_worker_tasks(HandlingReturns(1))
    /\ WF_worker_tasks(EntersLoop(1))

----------------------------------------------------------------------------
(* Properties of the Channel Buffer Manager, checked under SpecBuf *)

Range(seq) == {seq[i] : i \in DOMAIN seq}
Iota(n) == [i \in 1..n |-> i]
Keys == DOMAIN accumulated                       \* the <<station, channel>> buffers

Buffer(key) == station_buffers[key[1]][key[2]]
Pending(key) == Buffer(key).samples
BlockLenOf(key) == block_len(Buffer(key).sampling_rate)

\* the windows that took a row from the channel, in emission order
WindowsOf(key) ==
    SelectSeq(windows_log, LAMBDA w : w.station_id = key[1] /\ key[2] \in Range(w.names))

\* the windows of a station, in emission order
WindowsOfStation(sid) == SelectSeq(windows_log, LAMBDA w : w.station_id = sid)

RowOf(w, name) == w.matrix[CHOOSE i \in DOMAIN w.names : w.names[i] = name]

\* the rows sliced from one channel, concatenated in emission order
RECURSIVE Rows(_, _)
Rows(ws, name) ==
    IF ws = <<>> THEN <<>> ELSE RowOf(Head(ws), name) \o Rows(Tail(ws), name)

SingleChannel(key) == DOMAIN station_buffers[key[1]] = {key[2]}

SeedOf(key) == OrElse(first_request[key].start_time, first_request[key].received_at)

C4_WindowStartAdvances ==
    \A sid \in {key[1] : key \in Keys} :
        LET ws == WindowsOfStation(sid)
        IN  \A k \in 1..(Len(ws) - 1) : ws[k + 1].start_time = ws[k].start_time + Window

\* first part of C5: a channel's start time is seeded once, from the hint or else the
\* received time of the channel's first request, and afterwards only advances by one
\* window per slice
C5_SeededOnce ==
    \A key \in Keys :
        Buffer(key).start_time = SeedOf(key) + Window * Len(WindowsOf(key))

\* second part of C5: a call that leaves the buffer below one window length emits no
\* window and no pick
C5_NoWindowBelowLength ==
    (last_call.usable /\ last_call.before + last_call.n < last_call.blk)
        => (last_call.windows = 0 /\ last_call.picks = 0 /\ ~last_call.raised)

\* third part of C5: the first window that takes a row from a channel is tagged with
\* the seeded start time of the channel
C5_FirstWindowTag ==
    \A key \in Keys :
        WindowsOf(key) # <<>> => WindowsOf(key)[1].start_time = SeedOf(key)

\* C5 (as claimed): a channel's window start time is seeded exactly once, by the first
\* request for the channel (its hint, else its received time); calls that leave the
\* buffer below one window length emit no window and no picks; and the first window
\* emitted is tagged with the seeded start time.
C5_SeedAndFirstWindow ==
    C5_SeededOnce /\ C5_NoWindowBelowLength /\ C5_FirstWindowTag

\* C6: for every channel, the rows sliced from it in emission order followed by its
\* pending samples are exactly the samples appended to it, in arrival order.
C6_NoSampleLostOrReused ==
    \A key \in Keys :
        Rows(WindowsOf(key), key[2]) \o Pending(key) = Iota(accumulated[key])

\* C6 witness: a channel of a two-channel station that has had two windows sliced and
\* still holds pending samples.
C6_Witness ==
    \E key \in Keys :
        /\ ~SingleChannel(key)
        /\ Len(WindowsOf(key)) >= 2
        /\ Pending(key) # <<>>

----------------------------------------------------------------------------
(* Properties of the Pipeline Worker, checked under Spec *)

Handling == {w \in DOMAIN worker_tasks : worker_tasks[w].pc = "handle"}
HandledRids == {handled[i].rid : i \in DOMAIN handled}
Returned(i) == handled[i].exception = None

\* C1 (as claimed): when the handling of a request has failed, the worker loop has not
\* terminated (so that the requests enqueued after it are still dequeued and handled).
C1_WorkerSurvivesFailure ==
    (\E i \in DOMAIN handled : ~Returned(i)) =>
        \A w \in DOMAIN worker_tasks : worker_tasks[w].pc # "dead"

\* C2: once the handling of a request has returned, the request's waveform record is
\* marked processed, whatever the number of picks of the request, zero included.
C2_WaveformMarkedProcessed ==
    \A i \in DOMAIN handled :
        Returned(i) => waveforms[handled[i].waveform_id].processed

\* C2 witness: a handling that returned with no pick at all, and one that returned
\* with picks; both waveforms are marked.
C2_Witness ==
    \E i, j \in DOMAIN handled :
        /\ Returned(i) /\ handled[i].batch = <<>>
        /\ Returned(j) /\ handled[j].batch # <<>>
        /\ handled[i].waveform_id # handled[j].waveform_id
        /\ waveforms[handled[i].waveform_id].processed
        /\ waveforms[handled[j].waveform_id].processed

\* C7: at most one request is being handled at any time, and a step changes the
\* channel buffers only if it is the handling step of the worker: every other step
\* (enqueueing by the gateway or the relay, start and stop of the bridge, the status
\* and frame queries, the startup, the dequeueing) leaves them as they are.
C7_SoleMutator ==
    /\ [](Cardinality(Handling) <= 1)
    /\ [][station_buffers' # station_buffers =>
            \E w \in Handling : worker_tasks'[w].pc # "handle"]_vars

\* C7 witness: the buffers hold samples put there by a handling step, while the bridge
\* is running, its relay has enqueued a request, and the worker is handling a request.
C7_Witness ==
    /\ station_buffers # EmptyDict
    /\ \E key \in Keys : Pending(key) # <<>>
    /\ _status.running /\ _status.frames > 0
    /\ Handling # {}

\* C8: requests are handled in the order in which they were enqueued: the handled
\* requests are in enqueue order, every request enqueued before the one being handled
\* has been handled to its end, and the requests still queued were enqueued after it,
\* in queue order.
C8_FifoOrder ==
    /\ \A i, j \in DOMAIN handled : i < j => handled[i].rid < handled[j].rid
    /\ \A i, j \in DOMAIN waveform_queue : i < j => waveform_queue[i].rid < waveform_queue[j].rid
    /\ \A w \in Handling :
          /\ \A r \in 1..(worker_tasks[w].request[1].rid - 1) : r \in HandledRids
          /\ \A i \in DOMAIN waveform_queue :
                waveform_queue[i].rid > worker_tasks[w].request[1].rid
    /\ \A i \in DOMAIN waveform_queue : \A r \in HandledRids : r < waveform_queue[i].rid

\* C8 witness: two requests, one enqueued by the gateway (for a station the bridge does
\* not stream) and one by the relay, have both been handled.
C8_Witness ==
    /\ Len(handled) = 2
    /\ Len(waveforms) = 2
    /\ _status.frames >= 1
    /\ \E i \in DOMAIN handled : stations[handled[i].station_id].code = "COLA"

\* C9: the number of events equals the number of handled requests with a non-empty
\* batch whose association did not raise; a handling that returned created an event
\* exactly if its batch was not empty; no two requests share an event; no event is
\* created for an empty batch and association is never invoked on an empty batch.
C9_OneEventPerBatch ==
    /\ Len(events) = Cardinality({i \in DOMAIN handled :
                                    /\ handled[i].batch # <<>>
                                    /\ handled[i].exception # Some("associate")})
    /\ \A i \in DOMAIN handled :
          /\ handled[i].batch = <<>> => handled[i].event_id = None
          /\ Returned(i) => (handled[i].batch # <<>> <=> handled[i].event_id # None)
          /\ handled[i].event_id # None => handled[i].event_id[1] \in DOMAIN events
    /\ \A i, j \in DOMAIN handled :
          (i # j /\ handled[i].event_id # None) => handled[i].event_id # handled[j].event_id
    /\ \A c \in DOMAIN associate_calls : associate_calls[c].batch # <<>>

\* C9 witness: three requests handled, two with picks (for different stations) and one
\* without; two events exist.
C9_Witness ==
    /\ Len(events) = 2
    /\ \E i, j \in DOMAIN handled :
          /\ handled[i].event_id # None /\ handled[j].event_id # None
          /\ handled[i].station_id # handled[j].station_id

\* C10: the event created for a batch has the minimum pick time of the batch as its
\* origin time and the station of the request as its preferred station.
C10_OriginAndPreferredStation ==
    \A i \in DOMAIN handled :
        handled[i].event_id # None =>
            LET event == events[handled[i].event_id[1]]
            IN  /\ event.origin_time = Min(PickTimes(handled[i].batch))
                /\ \A k \in DOMAIN handled[i].batch :
                      event.origin_time <= handled[i].batch[k].pick_time
                /\ event.preferred_station_id = handled[i].station_id

\* C10 witness: an event for the second station, created from a batch whose first pick
\* is not its earliest.
C10_Witness ==
    \E i \in DOMAIN handled :
        /\ handled[i].event_id # None
        /\ handled[i].station_id = 2
        /\ handled[i].batch[1].pick_time # Min(PickTimes(handled[i].batch))

\* the handled requests whose picks were attached: a batch was produced and neither
\* the association nor the attachment raised
Attached(i) ==
    /\ handled[i].batch # <<>>
    /\ handled[i].exception \in {None, Some("mark")}

\* the PhasePick rows expected after the first n handled requests: the picks of
\* each attached batch, in batch order, each with the event id of its own request
RECURSIVE ExpectedPickRows(_)
ExpectedPickRows(n) ==
    IF n = 0 THEN <<>>
    ELSE ExpectedPickRows(n - 1) \o
         (IF Attached(n)
          THEN [k \in DOMAIN handled[n].batch |->
                  [station_id |-> handled[n].batch[k].station_id,
                   event_id   |-> handled[n].event_id,
                   phase_type |-> handled[n].batch[k].phase_type,
                   pick_time  |-> handled[n].batch[k].pick_time,
                   quality    |-> handled[n].batch[k].quality]]
          ELSE <<>>)

\* C11: the picks of every non-empty batch whose handling got through attachment are
\* persisted once each, all with the id of the event created for their own batch, an
\* event that is in the Event table; the picks leave detection with no event id, and a
\* persisted pick is never changed afterwards, so its event id is set exactly once.
C11_PicksReferenceTheirEvent ==
    /\ [](/\ picks = ExpectedPickRows(Len(handled))
          /\ \A k \in DOMAIN picks :
                picks[k].event_id # None /\ picks[k].event_id[1] \in DOMAIN events
          /\ \A i \in DOMAIN handled : \A k \in DOMAIN handled[i].batch :
                handled[i].batch[k].event_id = None)
    /\ [][\A k \in DOMAIN picks : k \in DOMAIN picks' /\ picks'[k] = picks[k]]_vars

\* C11 witness: two batches were attached, to two different events.
C11_Witness ==
    \E i, j \in DOMAIN handled :
        /\ Attached(i) /\ Attached(j) /\ Returned(i) /\ Returned(j)
        /\ handled[i].event_id # handled[j].event_id
        /\ Len(picks) = Len(handled[i].batch) + Len(handled[j].batch)

----------------------------------------------------------------------------
(* Properties of the functions, checked under SpecFn *)

\* C12: the simulation fallback yields exactly 4 picks, labelled Pg, Sg, Pn, Sn in
\* that order, each with a quality in [0.7, 0.99] and a pick time that is the base
\* time (the window start when one is given, else the request's received time) plus
\* an offset in [0.5, 6.0] seconds.
C12_SimulationFallback ==
    fn_call.fn = "simulate" =>
        LET base == IF fn_call.base_time # None THEN fn_call.base_time[1]
                    ELSE fn_call.request.received_at
        IN  /\ Len(fn_call.result) = 4
            /\ \A i \in 1..4 :
                  /\ fn_call.result[i].phase_type = <<"Pg", "Sg", "Pn", "Sn">>[i]
                  /\ fn_call.result[i].quality \in 70..99
                  /\ fn_call.result[i].pick_time - base \in 5..60

\* C12 witness: a simulation for a window start that differs from the received time,
\* with a pick at each end of the offset range.
C12_Witness ==
    /\ fn_call.fn = "simulate"
    /\ fn_call.base_time = Some(1100)
    /\ fn_call.request.received_at = 1000
    /\ fn_call.result[1].pick_time = 1105
    /\ fn_call.result[4].pick_time = 1160

RECURSIVE Concat(_)
Concat(seqs) == IF seqs = <<>> THEN <<>> ELSE Head(seqs) \o Concat(Tail(seqs))

\* the picks of a window are the conversions of the detections, one per detection and
\* in their order
OnlyDetections(w) ==
    /\ Len(w.picks) = Len(w.results)
    /\ \A k \in DOMAIN w.picks :
          /\ w.picks[k].quality = w.results[k].confidence
          /\ w.picks[k].pick_time =
                w.start_time + (w.results[k].sample_idx * RateScale * TicksPerSecond) \div 20
          /\ w.picks[k].phase_type =
                (IF w.results[k].phase_idx \in 0..3
                 THEN <<"Pg", "Sg", "Pn", "Sn">>[w.results[k].phase_idx + 1]
                 ELSE "phase" \o ToString(w.results[k].phase_idx))

\* the picks of a window are the four simulated picks
OnlySimulated(w) ==
    /\ Len(w.picks) = 4
    /\ \A k \in 1..4 :
          /\ w.picks[k].phase_type = <<"Pg", "Sg", "Pn", "Sn">>[k]
          /\ w.picks[k].pick_time = w.start_time + w.sim.offsets[k]
          /\ w.picks[k].quality = w.sim.quality[k]

\* C13: every window contributes either exactly the conversions of its detections,
\* when the adapter returned at least one, or exactly the four simulated picks, when
\* it returned none; the picks of the call are the picks of its windows and nothing
\* else.
C13_DetectionsOrSimulation ==
    (fn_call.fn = "buffer" /\ ~fn_call.result.raised) =>
        /\ \A k \in DOMAIN fn_call.result.windows :
              LET w == fn_call.result.windows[k]
              IN  IF w.results # <<>> THEN OnlyDetections(w) ELSE OnlySimulated(w)
        /\ fn_call.result.picks =
              Concat([k \in DOMAIN fn_call.result.windows |-> fn_call.result.windows[k].picks])

\* C13 witness: a call with two windows, the first with two detections, the second
\* with none and so with simulated picks.
C13_Witness ==
    /\ fn_call.fn = "buffer" /\ ~fn_call.result.raised
    /\ Len(fn_call.result.windows) = 2
    /\ Len(fn_call.result.windows[1].results) = 2
    /\ fn_call.result.windows[2].results = <<>>
    /\ Len(fn_call.result.picks) = 6

\* a row the adapter can read: at least three fields, each a number
WellFormed(row) == Len(row) >= 3 /\ \A i \in 1..3 : row[i] # NotANumber

\* the positions of the well-formed rows of an output, in increasing order
RECURSIVE WellFormedPositions(_, _)
WellFormedPositions(output, from) ==
    IF from > Len(output) THEN <<>>
    ELSE IF WellFormed(output[from])
    THEN <<from>> \o WellFormedPositions(output, from + 1)
    ELSE WellFormedPositions(output, from + 1)

\* C14: the adapter never fails on a malformed row; it returns one detection per
\* well-formed row of the model output, in the order of the output, with the sample
\* index and the confidence of the row and the integer part of its class index; a
\* row whose class index is a whole number is returned with its values unaltered.
C14_MalformedRowsSkipped ==
    fn_call.fn = "detect" =>
        LET pos == WellFormedPositions(fn_call.output, 1)
            got == fn_call.result.results
        IN  /\ ~fn_call.result.raised
            /\ Len(got) = Len(pos)
            /\ \A k \in DOMAIN pos :
                  LET row == fn_call.output[pos[k]]
                  IN  /\ got[k].sample_idx = row[2]
                      /\ got[k].confidence = row[3]
                      /\ got[k].phase_idx * ClassScale <= row[1]
                      /\ row[1] < (got[k].phase_idx + 1) * ClassScale
                      /\ (row[1] % ClassScale = 0 =>
                             got[k].phase_idx * ClassScale = row[1])

\* C14 witness: a two-field row and an empty row around a detection, then another
\* detection: the two detections come back in their order.
C14_Witness ==
    /\ fn_call.fn = "detect"
    /\ fn_call.output = << <<100, 5>>, <<100, 2, 60>>, <<0, 1, 90>> >>
    /\ fn_call.result.results =
           << [phase_idx |-> 1, sample_idx |-> 2, confidence |-> 60],
              [phase_idx |-> 0, sample_idx |-> 1, confidence |-> 90] >>

\* C15: over a sequence of detect calls the load is attempted at most once, whatever
\* its outcome, and a call that finds no model returns an empty sequence.
C15_LoadAttemptedOnce ==
    fn_call.fn = "detects" =>
        /\ Cardinality({i \in DOMAIN fn_call.calls : fn_call.calls[i].result.attempted}) <= 1
        /\ \A i \in DOMAIN fn_call.calls :
              fn_call.calls[i].result.model # "Loaded" =>
                  /\ ~fn_call.calls[i].result.raised
                  /\ fn_call.calls[i].result.results = <<>>

\* C15, the part the code keeps: once a call has cached a model or the absence of the
\* file, no later call attempts a load.
C15_CachedOutcomeIsFinal ==
    fn_call.fn = "detects" =>
        \A i, j \in DOMAIN fn_call.calls :
            (i < j /\ fn_call.calls[i].result.model # "None") =>
                /\ ~fn_call.calls[j].result.attempted
                /\ fn_call.calls[j].result.model = fn_call.calls[i].result.model

\* two calls in a row with a model file that torch.jit.load rejects
C15_LoadRetried ==
    /\ fn_call.fn = "detects"
    /\ Len(fn_call.calls) = 2
    /\ fn_call.calls[1].result.attempted /\ fn_call.calls[1].result.raised
    /\ fn_call.calls[2].result.attempted /\ fn_call.calls[2].result.raised

\* the matrix is (n, 3) and its row t holds sample t of the three components
RowsAreSamples(data, n) ==
    /\ data.dim = 2
    /\ Len(data.data) = n
    /\ \A t \in 1..n : data.data[t] = <<SampleValue(1, t), SampleValue(2, t), SampleValue(3, t)>>

\* C16: a window of N samples of three components, component-major, time-major or
\* as a singleton batch, reaches the model as an (N, 3) matrix whose row t holds
\* sample t of each component; a window that does not have three components is
\* rejected.
C16_NormalizedToTimeMajor ==
    fn_call.fn = "normalize" =>
        IF fn_call.components = 3
        THEN fn_call.result.ok /\ RowsAreSamples(fn_call.result.data, fn_call.n)
        ELSE ~fn_call.result.ok

\* C16, the part the code keeps: every layout of three components is normalized as
\* claimed unless it is component-major with exactly three samples.
C16_NormalizedUnlessSquare ==
    (/\ fn_call.fn = "normalize"
     /\ fn_call.components = 3
     /\ ~(fn_call.layout = "component_major" /\ fn_call.n = 3)) =>
        fn_call.result.ok /\ RowsAreSamples(fn_call.result.data, fn_call.n)

\* the component-major window of three samples reaches the model as it came
C16_SquarePassedAsIs ==
    /\ fn_call.fn = "normalize"
    /\ fn_call.components = 3 /\ fn_call.layout = "component_major" /\ fn_call.n = 3
    /\ fn_call.result.ok
    /\ fn_call.result.data = ComponentMajor(3, 3)

----------------------------------------------------------------------------
(* Properties of the Stream Bridge, checked under SpecBridge *)

Ended(task) == task.pc \in {"done", "cancelled", "failed"}

\* a start call returns in this step
StartReturns == api_call'.n = api_call.n + 1 /\ api_call'.fn = "start"

\* a stop call of a bridge that is not running returns in this step
StopRefused ==
    /\ api_call'.n = api_call.n + 1
    /\ api_call'.fn = "stop"
    /\ ~_status.running

\* C17: a start call made while the status says running returns False and changes
\* neither the status (running, selectors, frame counter, last frame, error) nor the
\* stop flag nor the tasks, threads and clients, whatever station it names; so the
\* number of sessions stays what it was.
C17_StartWhileRunningIsNoOp ==
    [][(StartReturns /\ _status.running) =>
          /\ ~api_call'.returned
          /\ UNCHANGED <<_status, _latest_frame, _stop_event, _stream_task, _worker_task,
                         _sl_client, _trace_queue, pump_threads, relay_tasks, clients,
                         stop_calls>>]_vars

\* C17 witness: a start naming COLA has been refused while the session on ANMO runs,
\* and there is one session.
C17_Witness ==
    /\ api_call.fn = "start" /\ ~api_call.returned /\ api_call.arg = "COLA"
    /\ _status.running /\ _status.station = Some("ANMO")
    /\ Len(pump_threads) = 1
    /\ _stream_task = Some(1) /\ _worker_task = Some(1)

\* the relay task of the latest session: while quiet, the session that was stopped
StoppedRelay == relay_tasks[Len(relay_tasks)]

C18_EveryRelayEnded ==
    (api_call.fn = "stop" /\ api_call.returned) =>
        \A r \in DOMAIN relay_tasks : Ended(relay_tasks[r])

\* C19: once a stop call has returned True, and until a start succeeds, no streaming
\* thread sits in run() on a client that has not been closed: every thread has
\* ended or its run() is about to return.
C19_StopUnblocksThread ==
    quiet => \A t \in DOMAIN pump_threads :
                 ~(pump_threads[t].pc = "run" /\ clients[t] = "open")

\* the stop call found no client to close, waited its three seconds and returned; the
\* thread of the session then created its client and sits in run()
C19_ThreadLeftRunning ==
    /\ quiet
    /\ Len(pump_threads) = 1
    /\ pump_threads[1].pc = "run" /\ clients[1] = "open"
    /\ _stop_event /\ ~_status.running

\* C20: every Waveform row the relay has created has its ProcessingRequest on the
\* pipeline queue, and no relay task is ever suspended or cancelled between the two.
C20_TraceHandledWhole ==
    /\ \A w \in DOMAIN waveforms :
          \E i \in DOMAIN waveform_queue : waveform_queue[i].waveform_id = w
    /\ \A r \in DOMAIN relay_tasks : relay_tasks[r].pc # "put"

\* C20 witness: a stop call has cancelled the relay after it had handled a trace and
\* is waiting for it; the trace has its row and its request.
C20_Witness ==
    /\ Len(relay_tasks) = 1 /\ relay_tasks[1].pc = "cancelled"
    /\ Len(waveforms) = 1
    /\ Len(waveform_queue) = 1 /\ waveform_queue[1].waveform_id = 1
    /\ stop_calls # <<>> /\ stop_calls[1].pc = "worker"

\* a start call returns True in this step
StartSucceeds == StartReturns /\ api_call'.returned

\* C21: in the state a successful start leaves, the status says running, names the
\* station passed to the call, counts 0 frames and has neither a last-frame time nor
\* an error, whatever the session before has left in it.
C21_StatusResetOnStart ==
    [][StartSucceeds =>
          _status' = [running |-> TRUE, frames |-> 0, station |-> Some(api_call'.arg),
                      last_frame |-> None, error |-> None]]_vars

\* C21, the part the code keeps: every field but the last-frame time is reset
C21_ResetButLastFrame ==
    [][StartSucceeds =>
          _status' = [running |-> TRUE, frames |-> 0, station |-> Some(api_call'.arg),
                      last_frame |-> _status.last_frame, error |-> None]]_vars

\* the second session has just been started and no frame of it has been relayed; the
\* status still shows the time of the last frame of the first session
C21_StaleLastFrame ==
    /\ api_call.fn = "start" /\ api_call.returned
    /\ Len(pump_threads) = 2
    /\ _status.running /\ _status.frames = 0
    /\ _status.last_frame # None

\* the streaming thread t takes its exception path in this step
ThreadFails(t) ==
    /\ t <= Len(pump_threads)
    /\ ~pump_threads[t].raised
    /\ pump_threads'[t].raised

Waiting(t) == t \in DOMAIN pump_threads /\ pump_threads[t].pc = "put"

C23_ReturnsWhileLoopRuns ==
    \A t \in 1..MaxSessions : Waiting(t) ~> (~Waiting(t) \/ LoopHeld)

\* the thread waits for its put while the worker is inside the slicing loop of
\* a request sampled below 0.1 Hz
C23_ThreadWaitsOnHeldLoop == Waiting(1) /\ LoopHeld

\* what a request says of its Waveform row
Naming(request) == [rid |-> request.rid, waveform_id |-> request.waveform_id,
                    station_id |-> request.station_id]

\* every request put on the input queue so far: waiting, in the hands of a worker,
\* or handled
Submitted ==
    {Naming(waveform_queue[i]) : i \in DOMAIN waveform_queue}
        \cup {Naming(worker_tasks[w].request[1]) :
                 w \in {v \in DOMAIN worker_tasks : worker_tasks[v].request # None}}
        \cup {Naming(handled[i]) : i \in DOMAIN handled}

\* the requests that name Waveform row id
RequestsOf(id) == {q \in Submitted : q.waveform_id = id}

\* a trace is relayed or a submission is accepted in this step
Produces == nreq' = nreq + 1

\* C24: every relayed trace and every accepted submission adds exactly one Waveform
\* row, unprocessed, and puts exactly one request on the input queue that names this
\* row and its station; every request ever submitted names a row that exists, and
\* every row is named by exactly one request
C24_OneRecordOneRequest ==
    /\ [](\A q \in Submitted :
             /\ q.waveform_id \in DOMAIN waveforms
             /\ waveforms[q.waveform_id].station_id = q.station_id)
    /\ [](\A id \in DOMAIN waveforms : Cardinality(RequestsOf(id)) = 1)
    /\ [][Produces =>
            /\ Len(waveforms') = Len(waveforms) + 1
            /\ SubSeq(waveforms', 1, Len(waveforms)) = waveforms
            /\ ~waveforms'[Len(waveforms')].processed
            /\ Len(waveform_queue') = Len(waveform_queue) + 1
            /\ SubSeq(waveform_queue', 1, Len(waveform_queue)) = waveform_queue
            /\ waveform_queue'[Len(waveform_queue')].waveform_id = Len(waveforms')
            /\ waveform_queue'[Len(waveform_queue')].station_id
                  = waveforms'[Len(waveforms')].station_id]_vars
    /\ [][Len(waveforms') # Len(waveforms) => Produces]_vars

\* a trace has been relayed and a raw submission accepted: two rows, and the two
\* requests wait on the input queue
C24_Witness ==
    /\ _status.frames = 1
    /\ Len(waveforms) = 2
    /\ Len(waveform_queue) = 2
    /\ \A i \in DOMAIN waveform_queue : ~Usable(waveform_queue[i])

\* the relay has handled a trace in this step
Relays == _status'.frames = _status.frames + 1

\* the request put on the input queue in this step
Enqueued == waveform_queue'[Len(waveform_queue')]

\* C25: the request the relay submits for a trace carries what was decoded from
\* the trace; a trace holds at least one sample, at a positive rate, of a channel,
\* from a start time, so the request is usable and names its channel and start time
C25_RequestCarriesTrace ==
    [][Relays =>
          /\ Usable(Enqueued)
          /\ Enqueued.channel # None
          /\ Enqueued.start_time # None]_vars

\* C25, what the code does: the request of a relayed trace or of an accepted
\* submission carries no samples, no sampling rate, no channel and no start time
C25_RelayedRequestEmpty ==
    [][(Relays \/ (Produces /\ sent' = sent)) =>
          /\ Enqueued.samples = <<>>
          /\ Enqueued.sampling_rate = 0
          /\ Enqueued.channel = None
          /\ Enqueued.start_time = None]_vars

\* the request of a relayed trace has been handled: no buffer exists, and the
\* picks written are the simulated batch
C25_RelayedTraceNotBuffered ==
    /\ _status.frames = 1
    /\ Len(handled) = 1
    /\ nreq = 1
    /\ handled[1].batch # <<>>
    /\ station_buffers = EmptyDict
    /\ windows_log = <<>>

\* the rows of the stations table with a code
RowsOfCode(station_rows, code) ==
    {id \in DOMAIN station_rows : station_rows[id].code = code}

\* C26: after a trace has been handled there is exactly one Station row with the
\* code of the trace: a row that existed is left as it was and no row is added, a
\* code not seen before gets one row with latitude 0, longitude 0 and status
\* "streaming"; at no time do two rows share a code
C26_OneStationPerCode ==
    /\ [](\A code \in StationCodes : Cardinality(RowsOfCode(stations, code)) <= 1)
    /\ [][Relays =>
            /\ Cardinality(RowsOfCode(stations', _status.station[1])) = 1
            /\ IF RowsOfCode(stations, _status.station[1]) # {}
               THEN stations' = stations
               ELSE stations' = Append(stations, [code |-> _status.station[1],
                                                  latitude |-> 0, longitude |-> 0,
                                                  status |-> "streaming"])]_vars

\* two traces of a station nobody registered have been relayed: one row, created
\* by the first trace and named by both Waveform rows
C26_Witness ==
    /\ _status.frames = 2
    /\ Len(stations) = 1
    /\ stations[1].status = "streaming"
    /\ Len(waveforms) = 2
    /\ \A id \in DOMAIN waveforms : waveforms[id].station_id = 1

\* a trace of a station registered through the gateway has been relayed: the row
\* is the registered one
C26_RegisteredReused ==
    /\ _status.frames = 1
    /\ Len(stations) = 1
    /\ stations[1].status = "healthy"
    /\ stations[1].code = _status.station[1]

----------------------------------------------------------------------------
(* Properties of the slicing loop, checked under SpecFn on window_call: the call, *)
(* the buffers before it and its result are in fn_call                           *)

WindowCall == fn_call.fn = "window"
Sliced == WindowCall /\ Usable(fn_call.request)

\* the channels of the station once the samples of the request are appended, and
\* when the call has returned
Appended == Extended(fn_call.before, fn_call.request)
Left == Get(fn_call.result.buffers, fn_call.request.station_id, EmptyDict)

SelectedSet(channels) == Range(selected_names(channels))
MinSelected(channels) ==
    Min({Len(channels[n].samples) : n \in SelectedSet(channels)})

\* row i of window k is the k-th block of the i-th selected channel
RowsFromSelected(channels, windows, blk) ==
    \A k \in DOMAIN windows, i \in DOMAIN selected_names(channels) :
        windows[k].matrix[i]
            = SubSeq(channels[selected_names(channels)[i]].samples,
                     (k - 1) * blk + 1, k * blk)

\* a channel outside the selection is as it was after the append
UnselectedUntouched(channels, left) ==
    \A n \in DOMAIN channels \ SelectedSet(channels) : left[n] = channels[n]

\* C27: a window is cut exactly when the shortest of the selected channels (the
\* first three names in sorted order) holds a window length of samples; the rows
\* are the first samples of the selected channels, and a channel outside the
\* selection neither gives a row nor holds the window back
C27_WindowWhenSelectedReady ==
    Sliced =>
        /\ (fn_call.result.windows # <<>>)
              <=> (MinSelected(Appended) >= block_len(fn_call.request.sampling_rate))
        /\ RowsFromSelected(Appended, fn_call.result.windows,
                            block_len(fn_call.request.sampling_rate))
        /\ UnselectedUntouched(Appended, Left)

\* C27, what the code does: a window is cut exactly when the shortest of ALL the
\* channels of the station holds a window length; rows come from the selected
\* channels only and a channel outside the selection is never sliced
C27_WindowWhenEveryChannelReady ==
    Sliced =>
        /\ (fn_call.result.windows # <<>>)
              <=> (min_len(Appended) >= block_len(fn_call.request.sampling_rate))
        /\ RowsFromSelected(Appended, fn_call.result.windows,
                            block_len(fn_call.request.sampling_rate))
        /\ UnselectedUntouched(Appended, Left)

\* the three selected channels hold a window each, the fourth channel of the
\* station holds less, and no window was cut
C27_UnselectedChannelDelays ==
    /\ Sliced
    /\ Cardinality(DOMAIN Appended) = 4
    /\ MinSelected(Appended) >= block_len(fn_call.request.sampling_rate)
    /\ fn_call.result.windows = <<>>

\* C28: the matrix of every window has three rows of exactly the window length;
\* with fewer than three channels the rows past the last channel are copies of the
\* first row, and a window takes its samples out of each selected buffer once
C28_ThreeRowsOfWindowLength ==
    Sliced =>
        /\ \A k \in DOMAIN fn_call.result.windows :
              /\ Len(fn_call.result.windows[k].matrix) = 3
              /\ \A i \in 1..3 :
                    Len(fn_call.result.windows[k].matrix[i])
                        = block_len(fn_call.request.sampling_rate)
              /\ \A i \in 1..3 :
                    i > Len(selected_names(Appended))
                        => fn_call.result.windows[k].matrix[i]
                               = fn_call.result.windows[k].matrix[1]
        /\ \A n \in SelectedSet(Appended) :
              Left[n].samples
                  = Drop(Appended[n].samples,
                         Len(fn_call.result.windows)
                             * block_len(fn_call.request.sampling_rate))

\* two windows cut from the one channel of a station: the rows of each are three
\* copies of its block, and the buffer lost two blocks
C28_Witness ==
    /\ Sliced
    /\ Cardinality(DOMAIN Appended) = 1
    /\ Len(fn_call.result.windows) = 2
    /\ fn_call.result.windows[1].matrix[3] = fn_call.result.windows[1].matrix[1]
    /\ fn_call.result.windows[2].matrix[1] # fn_call.result.windows[1].matrix[1]
    /\ \A n \in DOMAIN Appended : Len(Left[n].samples) = Len(Appended[n].samples) - 4

\* C29: a request with no samples or no sampling rate cuts no window and leaves
\* every buffer as it was, and its picks are the simulated batch timed from the
\* received time of the request
C29_UnusableRequestOnlySimulates ==
    (WindowCall /\ ~Usable(fn_call.request)) =>
        /\ fn_call.result.windows = <<>>
        /\ fn_call.result.buffers = fn_call.before
        /\ Len(fn_call.result.picks) = Len(PhaseLabels)
        /\ \A i \in DOMAIN fn_call.result.picks :
              /\ fn_call.result.picks[i].phase_type = PhaseLabels[i]
              /\ fn_call.result.picks[i].station_id = fn_call.request.station_id
              /\ fn_call.result.picks[i].pick_time
                    = fn_call.request.received_at + fn_call.draw.offsets[i]
              /\ fn_call.result.picks[i].quality = fn_call.draw.quality[i]

\* a request with samples and a sampling rate of 0 met a station with buffers
C29_Witness ==
    /\ WindowCall
    /\ fn_call.request.samples # <<>>
    /\ fn_call.request.sampling_rate = 0
    /\ fn_call.before # EmptyDict
    /\ fn_call.result.picks # <<>>

\* a request without samples for a channel that has no buffer
C29_NoSamples ==
    /\ WindowCall
    /\ fn_call.request.samples = <<>>
    /\ fn_call.request.sampling_rate = 20
    /\ fn_call.before = EmptyDict
    /\ fn_call.result.buffers = EmptyDict

----------------------------------------------------------------------------
(* Properties of the output conversion, checked under SpecFn on convert_call *)

\* the raw detections of the call that have a class index, in their order
Indexed == SelectSeq(fn_call.picker_results, LAMBDA d : d.phase_idx # NoPhase)

\* C30: the conversion gives one pick for every raw detection that has a class
\* index, in the order of the detections; the label is the element of Pg, Sg, Pn,
\* Sn at the index when the index is in 0..3, and "phase" followed by the index
\* when it is negative or 4 and more
C30_LabelByClassIndex ==
    fn_call.fn = "convert" =>
        /\ Len(fn_call.result) = Len(Indexed)
        /\ \A i \in DOMAIN fn_call.result :
              /\ Indexed[i].phase_idx \in 0..3
                    => fn_call.result[i].phase_type = PhaseLabels[Indexed[i].phase_idx + 1]
              /\ Indexed[i].phase_idx \notin 0..3
                    => fn_call.result[i].phase_type
                          = "phase" \o ToString(Indexed[i].phase_idx)
              /\ fn_call.result[i].pick_time
                    = 400 + PickOffset(Indexed[i].sample_idx, 20)
              /\ fn_call.result[i].quality = Indexed[i].confidence

\* three detections, the second without a class index: two picks, "phase-1" for
\* the index -1 and then "Sn" for the index 3
C30_Witness ==
    /\ fn_call.fn = "convert"
    /\ Len(fn_call.picker_results) = 3
    /\ fn_call.picker_results[1].phase_idx = -1
    /\ fn_call.picker_results[2].phase_idx = NoPhase
    /\ fn_call.picker_results[3].phase_idx = 3
    /\ Len(fn_call.result) = 2
    /\ fn_call.result[1].phase_type = "phase-1"
    /\ fn_call.result[2].phase_type = "Sn"

----------------------------------------------------------------------------
(* Properties of the live frame, checked under SpecFn on frame_call *)

FrameCall == fn_call.fn = "frame"

\* the frame is made of the trace just relayed and of nothing of the frame before,
\* and its samples are those at the indices 0, s, 2s, ... of the trace
FrameOfLatest(s) ==
    /\ fn_call.result[1].seq = 2
    /\ fn_call.result[1].samples = Stride(TraceData(fn_call.npts), s)

\* C31: the live frame is that of the most recently relayed trace only, its
\* samples are the samples of the trace at the indices 0, s, 2s, ... for one
\* stride s >= 1, and there are at most 800 of them whatever the length of the trace
C31_FrameAtMost800 ==
    FrameCall =>
        /\ \E s \in 1..fn_call.npts : FrameOfLatest(s)
        /\ Len(fn_call.result[1].samples) <= FramePoints

\* C31, what the code does: the stride is len // 800 and at least 1, so a frame
\* holds fewer than twice 800 samples
C31_FrameBelowTwice800 ==
    FrameCall =>
        /\ FrameOfLatest(Max({1, fn_call.npts \div FramePoints}))
        /\ Len(fn_call.result[1].samples) < 2 * FramePoints

\* a trace of 1599 samples: the stride is 1 and the frame holds all of them
C31_FrameOf1599 ==
    /\ FrameCall
    /\ fn_call.npts = 2 * FramePoints - 1
    /\ Len(fn_call.result[1].samples) = 2 * FramePoints - 1

----------------------------------------------------------------------------
(* Properties of the pick listeners, checked under SpecFn on notify_call *)

NotifyCall == fn_call.fn = "notify"

\* the calls listener i got
CallsOf(i) == {k \in DOMAIN fn_call.calls : fn_call.calls[k].listener = i}

\* C32: a listener that raises keeps nothing from going on: with a batch that is
\* not empty every registered listener is called exactly once, in the order of
\* registration and with the batch, whatever the listeners before it did, and the
\* event is created, the picks of the batch are written with its id and the
\* waveform is marked processed; with an empty batch no listener is called
C32_ListenersIsolated ==
    NotifyCall =>
        /\ fn_call.batch = <<>> => fn_call.calls = <<>>
        /\ fn_call.batch # <<>> =>
              /\ Len(fn_call.calls) = Len(fn_call.listeners)
              /\ \A i \in DOMAIN fn_call.listeners :
                    /\ Cardinality(CallsOf(i)) = 1
                    /\ fn_call.calls[i] = [listener |-> i,
                                           station_id |-> fn_call.request.station_id,
                                           batch |-> fn_call.batch]
              /\ fn_call.result.exception = None
              /\ Len(fn_call.result.db.events) = 1
              /\ Len(fn_call.result.db.picks) = Len(fn_call.batch)
              /\ \A k \in DOMAIN fn_call.result.db.picks :
                    fn_call.result.db.picks[k]
                        = [fn_call.batch[k] EXCEPT !.event_id = Some(1)]
        /\ fn_call.result.db.waveforms[1].processed

\* the first of three listeners raises and so does the last: the three were called
\* and the waveform is marked processed
C32_Witness ==
    /\ NotifyCall
    /\ fn_call.listeners = <<"raises", "returns", "raises">>
    /\ fn_call.batch # <<>>
    /\ Len(fn_call.calls) = 3
    /\ Len(fn_call.result.db.events) = 1
    /\ fn_call.result.db.waveforms[1].processed

----------------------------------------------------------------------------
(* Properties of the slicing loop as the worker runs it, checked under SpecWorker *)

\* worker w has taken a request and has not come back to the queue
InHandling(w) ==
    w \in DOMAIN worker_tasks /\ worker_tasks[w].pc \in {"handle", "slicing"}

\* C33: the handling of a request ends: a worker that has taken a request, whatever
\* its sampling rate and the channels of its station, is later done with it
C33_HandlingTerminates ==
    \A w \in 1..1 : InHandling(w) ~> ~InHandling(w)

\* C33, the part the code keeps: the handling of a request whose window length is
\* at least one sample ends
C33_TerminatesWithWindowLength ==
    \A w \in 1..1 :
        (InHandling(w) /\ ~Endless(worker_tasks[w].request[1])) ~> ~InHandling(w)

\* the worker is inside the slicing loop of a request sampled below 0.1 Hz: the
\* window length is 0, the loop goes on, and an iteration takes no sample out of
\* any buffer, so the loop goes on after it as well
C33_LoopNeverBreaks ==
    \E w \in DOMAIN worker_tasks :
        /\ worker_tasks[w].pc = "slicing"
        /\ block_len(worker_tasks[w].request[1].sampling_rate) = 0
        /\ Ready(station_buffers[worker_tasks[w].request[1].station_id], 0)
        /\ Ready(DropAndAdvance(station_buffers[worker_tasks[w].request[1].station_id],
                                selected_names(station_buffers[
                                    worker_tasks[w].request[1].station_id]), 0), 0)

----------------------------------------------------------------------------
(* Properties of the sessions of the bridge, checked under SpecBridge *)

\* the streaming threads that have not returned and the relay tasks that have not
\* ended
ActiveThreads ==
    {t \in DOMAIN pump_threads : pump_threads[t].pc \in {"create", "run", "put"}}
ActiveRelays ==
    {r \in DOMAIN relay_tasks : relay_tasks[r].pc \in {"new", "get", "put"}}

\* C34: at most one streaming thread and at most one relay task are active at any
\* time, whatever the order of starts, stops and failures
C34_OneThreadOneRelay ==
    /\ Cardinality(ActiveThreads) <= 1
    /\ Cardinality(ActiveRelays) <= 1

\* the relay of a session whose client failed is still waiting for a trace when
\* the next session has its own relay: no stop came between
C34_RelayLeftOver ==
    /\ Cardinality(ActiveRelays) = 2
    /\ stop_calls = <<>>
    /\ api_call.fn = "start"
    /\ api_call.n = 2
    /\ pump_threads[1].raised
    /\ relay_tasks[1].pc = "get"

\* the thread of a session is still running when the next session has its own
\* thread: the stop between them gave up waiting for it
C34_ThreadLeftOver ==
    /\ Cardinality(ActiveThreads) = 2
    /\ stop_calls = <<>>
    /\ ~api_call.overlapped

----------------------------------------------------------------------------
(* Properties of a session's state (SpecBridge)                                *)

\* the session the status speaks of: the one of the latest successful start
CurrentSession == Len(pump_threads)

\* the step is the entry of a stop call that found the stream running
StopCalled == api_call'.n = api_call.n + 1 /\ api_call'.fn \in {"stop_entered", "stop"}

\* the step is the end of thread t: its client ended, by close() or by a failure
ThreadEnds(t) == pump_threads[t].pc # "done" /\ pump_threads'[t].pc = "done"

\* the step takes the running session's state away: running cleared, the stop flag
\* set or a last error written
SessionStateTaken ==
    /\ _status.running
    /\ \/ ~_status'.running
       \/ ~_stop_event /\ _stop_event'
       \/ _status'.error # _status.error

\* C35: the state of a running session is changed only by that session: running
\* stays true, the stop flag stays clear and the last error stays as it is until
\* stop() is called or the session's own client ends; the teardown of an earlier
\* session's thread never does it.
C35_OnlyOwnSession ==
    [][SessionStateTaken => StopCalled \/ ThreadEnds(CurrentSession)]_vars

\* the same while no two calls of the API overlap
C35_OnlyOwnSessionSerialCalls ==
    [][SessionStateTaken /\ ~api_call.overlapped /\ stop_calls = <<>>
          => StopCalled \/ ThreadEnds(CurrentSession)]_vars

\* the case of the claim: two sessions were started and the thread of the first one
\* is still running beside the second session
C35_EarlierThreadBesideSession ==
    /\ CurrentSession = 2
    /\ _status.running
    /\ ~_stop_event
    /\ pump_threads[1].pc = "run"
    /\ pump_threads[2].pc = "run"

----------------------------------------------------------------------------
(* Properties of the relay task and the frame counter (SpecBridge)             *)

\* the relay task r takes a trace off the trace queue in this step
TakesTrace(r) ==
    /\ r <= Len(relay_tasks)
    /\ relay_tasks[r].pc = "get"
    /\ Len(_trace_queue') < Len(_trace_queue)

\* the trace taken in this step has been handled whole: its request is on the
\* pipeline queue
HandledWhole == Len(waveform_queue') = Len(waveform_queue) + 1

\* the frame counter counts the traces handled whole: a successful start sets it to
\* 0, a trace handled whole adds one, nothing else changes it
FramesCountHandled ==
    /\ HandledWhole => _status'.frames = _status.frames + 1
    /\ _status'.frames # _status.frames =>
          \/ HandledWhole
          \/ StartSucceeds /\ _status'.frames = 0

\* C36: whenever the status says running a relay task is alive and consuming; a
\* failure while handling one trace does not end the relay task, which goes on
\* relaying; the frame counter counts exactly the traces handled successfully.
C36_RelayOutlivesFailure ==
    /\ [](_status.running => ActiveRelays # {})
    /\ [][\A r \in 1..MaxSessions :
            TakesTrace(r) => relay_tasks'[r].pc \in {"get", "put", "done"}]_vars
    /\ [][FramesCountHandled]_vars

\* C36, the part the code keeps: the frame counter
C36_FramesCountHandled == [][FramesCountHandled]_vars

\* C36, the first part alone
C36_RunningHasRelay == _status.running => ActiveRelays # {}

\* the handling of the first trace of the only session has failed: the status says
\* running, the thread streams on and a second trace waits on the trace queue, but
\* no relay task is left to take it
C36_RunningWithoutRelay ==
    /\ Len(relay_tasks) = 1
    /\ relay_tasks[1].pc = "failed"
    /\ _status.running /\ ~_stop_event /\ _status.frames = 0
    /\ pump_threads[1].pc = "run" /\ clients[1] = "open"
    /\ Len(_trace_queue) = 1
    /\ api_call.n = 1

----------------------------------------------------------------------------
(* Properties of the slicing loop over a stream of requests (SpecStarve)       *)

\* the buffer of channel c holds samples when the call has returned
HoldsSamples(c) ==
    /\ fn_call.fn = "feed"
    /\ c \in DOMAIN fn_call.pending
    /\ fn_call.pending[c] # <<>>

\* the call has cut a block from the head of the buffer of channel c
SlicedInCall(c) == fn_call.fn = "feed" /\ c \in fn_call.sliced

\* C37: no channel is starved: whatever the number of channels of the station, more
\* than three included, while every channel keeps receiving samples the samples a
\* channel buffer holds are later sliced into a window, so no buffer grows without
\* bound.
C37_NoChannelStarved ==
    \A c \in ChannelNames : HoldsSamples(c) ~> SlicedInCall(c)

\* C37, what the code does: the channels of a station of up to three channels are
\* served
C37_UpToThreeChannelsServed ==
    \A c \in ChannelNames :
        (HoldsSamples(c) /\ Cardinality(fn_call.names) <= 3) ~> SlicedInCall(c)

\* the station streams four channels: windows have been cut from the first three
\* names in sorted order, whose buffers are empty, while the buffer of the fourth
\* holds all it may hold and has never been sliced
C37_FourthChannelBacklog ==
    /\ fn_call.fn = "feed"
    /\ fn_call.names = ChannelNames
    /\ fn_call.windows > 0
    /\ fn_call.sliced = {"BHE", "BHZ", "HHZ"}
    /\ \A c \in fn_call.sliced : fn_call.pending[c] = <<>>
    /\ "UNK" \in DOMAIN fn_call.pending
    /\ Len(fn_call.pending["UNK"]) = MaxBacklog

----------------------------------------------------------------------------
(* Properties of the order of _handle_request, checked under SpecFn on          *)
(* handle_call: the tables are those the call has left, whether it returned or   *)
(* one of its persistence operations raised                                      *)

HandleCall == fn_call.fn = "handle"

\* the waveform of the request is marked processed
MarkedProcessed == fn_call.result.db.waveforms[fn_call.request.waveform_id].processed

\* the event of the request is in the Event table and every pick of the batch is in
\* the PhasePick table with the id of that event
PicksLinked ==
    /\ fn_call.result.event_id # None
    /\ fn_call.result.event_id[1] \in DOMAIN fn_call.result.db.events
    /\ \A k \in DOMAIN fn_call.batch :
          \E p \in DOMAIN fn_call.result.db.picks :
              fn_call.result.db.picks[p]
                  = [fn_call.batch[k] EXCEPT !.event_id = fn_call.result.event_id]

\* C38: in every state a handling can leave, a waveform that is marked processed
\* and whose request produced a batch that is not empty has its event in the Event
\* table and every pick of the batch persisted with the id of that event: the
\* waveform is never marked before its picks are linked. The listeners are notified
\* before the event is created: they have all been called in every outcome, the one
\* in which the association raised and no event exists included.
C38_MarkedOnlyWhenLinked ==
    (HandleCall /\ fn_call.batch # <<>>) =>
        /\ MarkedProcessed => PicksLinked
        /\ fn_call.fault \in {"associate", "attach"} => ~MarkedProcessed
        /\ Len(fn_call.calls) = Len(fn_call.listeners)
        /\ fn_call.fault = "associate" => fn_call.result.db.events = <<>>

\* a batch of four picks was handled to its end with two listeners registered: both
\* were called, the event exists, the picks carry its id and the waveform is marked
C38_Witness ==
    /\ HandleCall
    /\ Len(fn_call.batch) = 4
    /\ fn_call.fault = "none"
    /\ Len(fn_call.listeners) = 2 /\ Len(fn_call.calls) = 2
    /\ MarkedProcessed /\ PicksLinked
    /\ Len(fn_call.result.db.picks) = 4

\* the attachment raised: the event exists without its picks and the waveform is
\* not marked; the listeners had been called
C38_AttachRaised ==
    /\ HandleCall
    /\ fn_call.fault = "attach"
    /\ Len(fn_call.result.db.events) = 1
    /\ fn_call.result.db.picks = <<>>
    /\ ~MarkedProcessed
    /\ fn_call.listeners # <<>> /\ Len(fn_call.calls) = Len(fn_call.listeners)

\* C38 over the states of the running worker (Spec): whenever the waveform of a
\* handled request with a batch is marked processed, the event of the request is
\* in the Event table and the picks of the batch are in the PhasePick table with its id
C38_MarkedOnlyWhenLinkedInWorker ==
    \A i \in DOMAIN handled :
        (handled[i].batch # <<>> /\ waveforms[handled[i].waveform_id].processed) =>
            /\ handled[i].event_id # None
            /\ handled[i].event_id[1] \in DOMAIN events
            /\ \A k \in DOMAIN handled[i].batch :
                  \E p \in DOMAIN picks :
                      /\ picks[p].event_id = handled[i].event_id
                      /\ picks[p].phase_type = handled[i].batch[k].phase_type
                      /\ picks[p].pick_time = handled[i].batch[k].pick_time

----------------------------------------------------------------------------
(* Properties of the gateway submission, checked under SpecFn on ingest_call   *)

IngestCall == fn_call.fn = "ingest"

\* the station code of the submission is not registered
Unregistered ==
    \A id \in DOMAIN fn_call.before.db.stations :
        fn_call.before.db.stations[id].code # fn_call.station_code

\* C39: a gateway submission that names a station code that is not registered is
\* answered with the error 404 and has no effect: no file is stored, no Waveform
\* row is created, nothing is put on the pipeline queue and no station is
\* registered.
C39_UnregisteredRejected ==
    (IngestCall /\ Unregistered) =>
        /\ fn_call.result.status = 404
        /\ fn_call.result.files = fn_call.before.files
        /\ fn_call.result.db.waveforms = fn_call.before.db.waveforms
        /\ fn_call.result.queue = fn_call.before.queue
        /\ fn_call.result.db.stations = fn_call.before.db.stations
        /\ fn_call.result.db = fn_call.before.db

\* ANMO is registered and has a waveform, its file and its request; a submission
\* naming COLA was answered 404 and the three are as they were
C39_Witness ==
    /\ IngestCall
    /\ fn_call.station_code = "COLA"
    /\ Len(fn_call.before.db.stations) = 1
    /\ fn_call.before.db.stations[1].code = "ANMO"
    /\ Len(fn_call.before.files) = 1
    /\ fn_call.result.status = 404
    /\ Len(fn_call.result.files) = 1
    /\ Len(fn_call.result.db.waveforms) = 1
    /\ Len(fn_call.result.queue) = 1
    /\ Len(fn_call.result.db.stations) = 1

\* the submission of a registered station is accepted: a file, a row and a request
C39_Accepted ==
    /\ IngestCall
    /\ ~Unregistered
    /\ fn_call.result.status = 200
    /\ Len(fn_call.result.files) = Len(fn_call.before.files) + 1
    /\ Len(fn_call.result.db.waveforms) = Len(fn_call.before.db.waveforms) + 1
    /\ Len(fn_call.result.queue) = Len(fn_call.before.queue) + 1

====
